---- MODULE Spec2Model ----
(***************************************************************************)
(* Event-sourced aggregates (ExtraService, Media, Prostitute, Schedule,    *)
(* Reservation) and their event-store repositories, as state machines.     *)
(*                                                                         *)
(* Spec      one aggregate value driven through its constructor, its       *)
(*           command methods and Aggregation::apply.                       *)
(* SpecRepo  two writers using one repository (find_by_id, save, delete)   *)
(*           over a shared event log.                                      *)
(* SpecCodec the envelope codec: events encoded to log records, and log    *)
(*           records decoded to CoreEvent.                                 *)
(* SpecSync  the projection worker (dely_sync) reading the log and         *)
(*           writing the search index and its checkpoint.                  *)
(***************************************************************************)
EXTENDS Integers, Sequences, FiniteSets, TLC

VARIABLES agg, last, repo, streams, log, ent, base, ret, rec, sync

domVars == <<agg, last>>
repoVars == <<repo, streams, log, ent, base, ret>>
\* the record at the codec and the projection worker
syncVars == <<rec, sync>>
vars == <<agg, last, repo, streams, log, ent, base, ret, rec, sync>>

(***************************************************************************)
(* Bounds and input domains                                                *)
(***************************************************************************)
\* ids range over 0..MaxId; 0 is the id of a default-constructed aggregate
MaxId == 1
\* longest event queue an aggregate is driven to
MaxQueue == 3
\* call frames available to the apply <-> change_video recursion
StackLimit == 2
\* longest all-streams log
MaxLog == 3
\* most events a writer queues before it saves
MaxPending == 2

Ids == 0..MaxId
\* strings are sequences of characters
Names == {<<>>, <<" ">>, <<"a">>, <<"b">>}
Texts == {<<>>, <<"d">>}
Moneys == {0, 1500}
\* Option<T> is a sequence of length at most one
NoneV == <<>>
Some(x) == <<x>>

Ok(s) == [res |-> "ok", st |-> s]
Err(s, e) == [res |-> e, st |-> s]
Push(s, e) == [s EXCEPT !.events = Append(@, e)]
\* str::trim().is_empty()
IsBlank(str) == \A i \in 1..Len(str) : str[i] = " "
SeqToSet(q) == {q[i] : i \in 1..Len(q)}
Retain(q, Keep(_)) == SelectSeq(q, Keep)

(***************************************************************************)
(* ExtraService                                                            *)
(***************************************************************************)
ESDefault ==
  [kind |-> "extra_service", id |-> 0, name |-> <<>>, description |-> <<>>,
   price |-> 0, events |-> <<>>]

ESValidateId(self, id) == IF self.id = id THEN "ok" ELSE "MismatchedId"

ESValidateNameChanged(name) == IF IsBlank(name) THEN "NameIsBlank" ELSE "ok"

ESCreate(id, name, description, price) ==
  IF ESValidateNameChanged(name) # "ok"
  THEN Err(ESDefault, ESValidateNameChanged(name))
  ELSE Ok([ESDefault EXCEPT !.id = id, !.name = name, !.description = description,
                            !.price = price,
                            !.events = <<[type |-> "ExtraServiceCreated", id |-> id,
                                          name |-> name, description |-> description,
                                          price |-> price]>>])

ESChangeName(self, name) ==
  IF ESValidateNameChanged(name) # "ok"
  THEN Err(self, ESValidateNameChanged(name))
  ELSE Ok(Push([self EXCEPT !.name = name],
               [type |-> "ExtraServiceNameChanged", id |-> self.id, name |-> name]))

ESChangeDescription(self, description) ==
  Ok(Push([self EXCEPT !.description = description],
          [type |-> "ExtraServiceDescriptionChanged", id |-> self.id,
           description |-> description]))

ESChangePrice(self, price) ==
  Ok(Push([self EXCEPT !.price = price],
          [type |-> "ExtraServicePriceChanged", id |-> self.id, price |-> price]))

ESValidate(self, e) ==
  CASE e.type = "ExtraServiceCreated" -> ESValidateNameChanged(e.name)
    [] e.type = "ExtraServiceNameChanged" ->
         IF ESValidateId(self, e.id) # "ok" THEN "MismatchedId"
         ELSE ESValidateNameChanged(e.name)
    [] OTHER -> ESValidateId(self, e.id)

\* apply ignores the command's Result: the state after the call is kept
ESApply(self, e) ==
  CASE e.type = "ExtraServiceCreated" ->
         IF self.id # e.id /\ ESCreate(e.id, e.name, e.description, e.price).res = "ok"
         THEN ESCreate(e.id, e.name, e.description, e.price).st ELSE self
    [] e.type = "ExtraServiceNameChanged" ->
         IF self.id = e.id THEN ESChangeName(self, e.name).st ELSE self
    [] e.type = "ExtraServiceDescriptionChanged" ->
         IF self.id = e.id THEN ESChangeDescription(self, e.description).st ELSE self
    [] e.type = "ExtraServicePriceChanged" ->
         IF self.id = e.id THEN ESChangePrice(self, e.price).st ELSE self
    [] OTHER -> self

ESEvents ==
  [type : {"ExtraServiceCreated"}, id : Ids, name : Names, description : Texts,
   price : Moneys]
    \cup [type : {"ExtraServiceNameChanged"}, id : Ids, name : Names]
    \cup [type : {"ExtraServiceDescriptionChanged"}, id : Ids, description : Texts]
    \cup [type : {"ExtraServicePriceChanged"}, id : Ids, price : Moneys]
    \cup [type : {"ExtraServiceDeleted"}, id : Ids]

(***************************************************************************)
(* Media                                                                   *)
(***************************************************************************)
\* byte strings by what content sniffing finds in them
Datas == {"", "gif", "png", "text"}

MediaDefault ==
  [kind |-> "media", id |-> 0, mime |-> "*/*", data |-> "", events |-> <<>>]

\* image::guess_format, then the decoder's dimensions; Ok carries the mime
MediaValidateCreated(data) ==
  CASE data = "gif" -> [res |-> "ok", mime |-> "image/gif"]
    [] data = "png" -> [res |-> "ok", mime |-> "image/png"]
    [] OTHER -> [res |-> "UnsupportedFormat", mime |-> "*/*"]

MediaCreate(id, data) ==
  IF MediaValidateCreated(data).res # "ok"
  THEN Err(MediaDefault, MediaValidateCreated(data).res)
  ELSE Ok([MediaDefault EXCEPT !.id = id, !.mime = MediaValidateCreated(data).mime,
                               !.data = data,
                               !.events = <<[type |-> "MediaCreated", id |-> id,
                                             mime |-> MediaValidateCreated(data).mime,
                                             data |-> data]>>])

MediaValidate(self, e) ==
  CASE e.type = "MediaCreated" -> MediaValidateCreated(e.data).res
    [] OTHER -> IF self.id = e.id THEN "ok" ELSE "MismatchedId"

MediaApply(self, e) ==
  CASE e.type = "MediaCreated" ->
         IF self.id # e.id /\ MediaCreate(e.id, e.data).res = "ok"
         THEN MediaCreate(e.id, e.data).st ELSE self
    [] OTHER -> self

MediaEvents ==
  [type : {"MediaCreated"}, id : Ids, mime : {"image/gif", "text/plain"}, data : Datas]
    \cup [type : {"MediaDeleted"}, id : Ids]

(***************************************************************************)
(* Prostitute                                                              *)
(***************************************************************************)
FigureDefault ==
  [vital_statistics |-> <<>>, cup_size |-> <<>>, height |-> <<>>, weight |-> <<>>]
Figures == {FigureDefault, [FigureDefault EXCEPT !.height = <<168>>, !.weight = <<60>>]}
Bloods == {NoneV, Some("A")}
Birthdays == {NoneV, Some("2000-01-01")}
Q1 == [question |-> <<"q">>, answer |-> <<"a">>]
Q2 == [question |-> <<"r">>, answer |-> <<"b">>]
QuestionLists == {<<>>, <<Q1>>, <<Q1, Q2>>}
MediaIds == 1..2
ImageLists == {<<>>, <<1>>, <<1, 2>>, <<1, 1>>}
Videos == {NoneV, Some(1)}
\* usize indexes of question commands (0-based, as in the source)
Indexes == 0..2

PrDefault ==
  [kind |-> "prostitute", id |-> 0, name |-> <<>>, catchphrase |-> <<>>,
   profile |-> <<>>, message |-> <<>>, figure |-> FigureDefault, blood |-> NoneV,
   birthday |-> NoneV, questions |-> <<>>, images |-> <<>>, video |-> NoneV,
   leaved |-> FALSE, events |-> <<>>]

PrValidateId(self, id) == IF self.id = id THEN "ok" ELSE "MismatchedId"

PrValidateName(name) == IF IsBlank(name) THEN "NameIsBlank" ELSE "ok"

PrValidateCatchphrase(catchphrase) ==
  IF IsBlank(catchphrase) THEN "CatchphraseIsBlank" ELSE "ok"

PrValidateCreated(name, catchphrase, images) ==
  IF PrValidateName(name) # "ok" THEN PrValidateName(name)
  ELSE IF PrValidateCatchphrase(catchphrase) # "ok" THEN PrValidateCatchphrase(catchphrase)
  ELSE IF Len(images) = Cardinality(SeqToSet(images)) THEN "ok" ELSE "DuplicateImage"

PrValidateRejoined(self) == IF self.leaved THEN "AlreadyLeft" ELSE "ok"

PrValidateLeaved(self) == IF self.leaved THEN "ok" ELSE "AlreadyJoined"

PrValidateQuestionNotFound(self, index) ==
  IF index >= Len(self.questions) THEN "QuestionNotFound" ELSE "ok"

PrValidateQuestionSwapped(self, a, b) ==
  IF PrValidateQuestionNotFound(self, a) # "ok" THEN "QuestionNotFound"
  ELSE IF PrValidateQuestionNotFound(self, b) # "ok" THEN "QuestionNotFound"
  ELSE IF a = b THEN "DuplicateQuestionIndex" ELSE "ok"

PrValidateImageAdded(self, m) ==
  IF m \in SeqToSet(self.images) THEN "DuplicateImage" ELSE "ok"

PrValidateImageNotFound(self, m) ==
  IF m \in SeqToSet(self.images) THEN "ok" ELSE "ImageNotFound"

PrValidateImageSwapped(self, a, b) ==
  IF PrValidateImageNotFound(self, a) # "ok" THEN "ImageNotFound"
  ELSE IF PrValidateImageNotFound(self, b) # "ok" THEN "ImageNotFound"
  ELSE IF a = b THEN "DuplicateImageIndex" ELSE "ok"

PrJoin(a) ==
  IF PrValidateCreated(a.name, a.catchphrase, a.images) # "ok"
  THEN Err(PrDefault, PrValidateCreated(a.name, a.catchphrase, a.images))
  ELSE Ok([kind |-> "prostitute", id |-> a.id, name |-> a.name,
           catchphrase |-> a.catchphrase, profile |-> a.profile,
           message |-> a.message, figure |-> a.figure, blood |-> a.blood,
           birthday |-> a.birthday, questions |-> a.questions, images |-> a.images,
           video |-> a.video, leaved |-> FALSE,
           events |-> <<[a EXCEPT !.type = "ProstituteJoined"]>>])

PrRejoin(self) ==
  IF PrValidateRejoined(self) # "ok" THEN Err(self, PrValidateRejoined(self))
  ELSE Ok(Push([self EXCEPT !.leaved = FALSE],
               [type |-> "ProstituteLeaved", id |-> self.id]))

PrLeave(self) ==
  IF PrValidateLeaved(self) # "ok" THEN Err(self, PrValidateLeaved(self))
  ELSE Ok(Push([self EXCEPT !.leaved = TRUE],
               [type |-> "ProstituteLeaved", id |-> self.id]))

PrChangeName(self, name) ==
  IF PrValidateName(name) # "ok" THEN Err(self, PrValidateName(name))
  ELSE Ok(Push([self EXCEPT !.name = name],
               [type |-> "ProstituteExtraServiceNameChanged", id |-> self.id,
                name |-> name]))

PrChangeCatchphrase(self, catchphrase) ==
  IF PrValidateCatchphrase(catchphrase) # "ok"
  THEN Err(self, PrValidateCatchphrase(catchphrase))
  ELSE Ok(Push([self EXCEPT !.catchphrase = catchphrase],
               [type |-> "ProstituteCatchphraseChanged", id |-> self.id,
                catchphrase |-> catchphrase]))

\* change_profile, change_message, change_figure, change_blood_type,
\* change_birthday, change_questions, change_images: assign, then push
PrChange(self, field, evtype, evfield, value) ==
  Ok(Push([self EXCEPT ![field] = value],
          [type |-> evtype, id |-> self.id] @@ (evfield :> value)))

PrAddQuestion(self, question) ==
  Ok(Push([self EXCEPT !.questions = Append(@, question)],
          [type |-> "ProstituteQuestionAdded", id |-> self.id, question |-> question]))

PrDeleteQuestion(self, index) ==
  IF PrValidateQuestionNotFound(self, index) # "ok" THEN Err(self, "QuestionNotFound")
  ELSE Ok(Push([self EXCEPT !.questions =
                  [i \in 1..(Len(@) - 1) |-> IF i <= index THEN @[i] ELSE @[i + 1]]],
               [type |-> "ProstituteQuestionDeleted", id |-> self.id, index |-> index]))

PrSwapQuestion(self, a, b) ==
  IF PrValidateQuestionSwapped(self, a, b) # "ok"
  THEN Err(self, PrValidateQuestionSwapped(self, a, b))
  ELSE Ok(Push([self EXCEPT !.questions =
                  [@ EXCEPT ![a + 1] = self.questions[b + 1],
                            ![b + 1] = self.questions[a + 1]]],
               [type |-> "ProstituteQuestionSwapped", id |-> self.id,
                index_a |-> a, index_b |-> b]))

PrAddImage(self, m) ==
  IF PrValidateImageAdded(self, m) # "ok" THEN Err(self, "DuplicateImage")
  ELSE Ok(Push([self EXCEPT !.images = Append(@, m)],
               [type |-> "ProstituteImageAdded", id |-> self.id, media_id |-> m]))

PrDeleteImage(self, m) ==
  IF PrValidateImageNotFound(self, m) # "ok" THEN Err(self, "ImageNotFound")
  ELSE Ok(Push([self EXCEPT !.images = SelectSeq(@, LAMBDA x : x # m)],
               [type |-> "ProstituteImageDeleted", id |-> self.id, media_id |-> m]))

\* a swap_image that only writes b over a
PrSwapImageOneWay(self, a, b) ==
  IF PrValidateImageSwapped(self, a, b) # "ok"
  THEN Err(self, PrValidateImageSwapped(self, a, b))
  ELSE Ok(Push([self EXCEPT !.images = [i \in 1..Len(@) |-> IF @[i] = a THEN b ELSE @[i]]],
               [type |-> "ProstituteImageSwapped", id |-> self.id,
                media_id_a |-> a, media_id_b |-> b]))

PrSwapImage(self, a, b) ==
  IF PrValidateImageSwapped(self, a, b) # "ok"
  THEN Err(self, PrValidateImageSwapped(self, a, b))
  ELSE Ok(Push([self EXCEPT !.images =
                  [i \in 1..Len(@) |-> IF @[i] = a THEN b
                                       ELSE IF @[i] = b THEN a ELSE @[i]]],
               [type |-> "ProstituteImageSwapped", id |-> self.id,
                media_id_a |-> a, media_id_b |-> b]))

PrValidate(self, e) ==
  CASE e.type = "ProstituteJoined" -> PrValidateCreated(e.name, e.catchphrase, e.images)
    [] PrValidateId(self, e.id) # "ok" -> "MismatchedId"
    [] e.type = "ProstituteRejoined" -> PrValidateRejoined(self)
    [] e.type = "ProstituteLeaved" -> PrValidateLeaved(self)
    [] e.type = "ProstituteExtraServiceNameChanged" -> PrValidateName(e.name)
    [] e.type = "ProstituteCatchphraseChanged" -> PrValidateCatchphrase(e.catchphrase)
    [] e.type = "ProstituteQuestionDeleted" -> PrValidateQuestionNotFound(self, e.index)
    [] e.type = "ProstituteQuestionSwapped" ->
         PrValidateQuestionSwapped(self, e.index_a, e.index_b)
    [] e.type = "ProstituteImageAdded" -> PrValidateImageAdded(self, e.media_id)
    [] e.type = "ProstituteImageDeleted" -> PrValidateImageNotFound(self, e.media_id)
    [] e.type = "ProstituteImageSwapped" ->
         PrValidateImageSwapped(self, e.media_id_a, e.media_id_b)
    [] OTHER -> "ok"

RECURSIVE PrApply(_, _, _)
\* change_video builds the event and hands it to apply, whose VideoChanged arm
\* calls change_video again; `depth` counts the frames in use.  The assignment
\* after the call is reached only when the call returns.
PrChangeVideo(self, video, depth) ==
  IF depth >= StackLimit THEN [res |-> "stack_overflow", st |-> self]
  ELSE LET r == PrApply(self, [type |-> "ProstituteVideoChanged", id |-> self.id,
                               media_id |-> video], depth + 1)
       IN IF r.res = "stack_overflow" THEN r
          ELSE Ok([r.st EXCEPT !.video = video])

PrApply(self, e, depth) ==
  IF e.type = "ProstituteJoined"
  THEN Ok(IF self.id # e.id /\ PrJoin([e EXCEPT !.type = "join"]).res = "ok"
          THEN PrJoin([e EXCEPT !.type = "join"]).st ELSE self)
  ELSE IF self.id # e.id \/ e.type = "ProstituteDeleted" THEN Ok(self)
  ELSE CASE e.type = "ProstituteRejoined" -> Ok(PrRejoin(self).st)
    [] e.type = "ProstituteLeaved" -> Ok(PrLeave(self).st)
    [] e.type = "ProstituteExtraServiceNameChanged" -> Ok(PrChangeName(self, e.name).st)
    [] e.type = "ProstituteCatchphraseChanged" ->
         Ok(PrChangeCatchphrase(self, e.catchphrase).st)
    [] e.type = "ProstituteProfileChanged" ->
         PrChange(self, "profile", e.type, "profile", e.profile)
    [] e.type = "ProstituteMessageChanged" ->
         PrChange(self, "message", e.type, "message", e.message)
    [] e.type = "ProstituteFigureChanged" ->
         PrChange(self, "figure", e.type, "figure", e.figure)
    [] e.type = "ProstituteBloodTypeChanged" ->
         PrChange(self, "blood", e.type, "blood", e.blood)
    [] e.type = "ProstituteBirthdayChanged" ->
         PrChange(self, "birthday", e.type, "birthday", e.birthday)
    [] e.type = "ProstituteQuestionsChanged" ->
         PrChange(self, "questions", e.type, "questions", e.questions)
    [] e.type = "ProstituteQuestionAdded" -> PrAddQuestion(self, e.question)
    [] e.type = "ProstituteQuestionDeleted" -> Ok(PrDeleteQuestion(self, e.index).st)
    [] e.type = "ProstituteQuestionSwapped" ->
         Ok(PrSwapQuestion(self, e.index_a, e.index_b).st)
    [] e.type = "ProstituteImagesChanged" ->
         PrChange(self, "images", e.type, "media_ids", e.media_ids)
    [] e.type = "ProstituteImageAdded" -> Ok(PrAddImage(self, e.media_id).st)
    [] e.type = "ProstituteImageDeleted" -> Ok(PrDeleteImage(self, e.media_id).st)
    [] e.type = "ProstituteImageSwapped" ->
         Ok(PrSwapImage(self, e.media_id_a, e.media_id_b).st)
    [] e.type = "ProstituteVideoChanged" -> PrChangeVideo(self, e.media_id, depth + 1)

\* arguments of join: the creation payload, bounded field by field
JoinInputs ==
  [type : {"join"}, id : Ids, name : {<<" ">>, <<"a">>}, catchphrase : {<<>>, <<"c">>},
   profile : {<<"p">>}, message : {<<>>}, figure : {FigureDefault}, blood : {NoneV},
   birthday : {NoneV}, questions : {<<>>, <<Q1, Q2>>}, images : ImageLists,
   video : {NoneV}]

PrCommands ==
  [op : {"rejoin", "leave"}]
    \cup [op : {"change_name"}, name : {<<" ">>, <<"b">>}]
    \cup [op : {"change_catchphrase"}, catchphrase : {<<>>, <<"e">>}]
    \cup [op : {"change_profile"}, profile : {<<>>}]
    \cup [op : {"change_message"}, message : {<<"m">>}]
    \cup [op : {"change_figure"}, figure : Figures \ {FigureDefault}]
    \cup [op : {"change_blood_type"}, blood : Bloods \ {NoneV}]
    \cup [op : {"change_birthday"}, birthday : Birthdays \ {NoneV}]
    \cup [op : {"change_questions"}, questions : {<<Q1>>}]
    \cup [op : {"add_question"}, question : {Q1}]
    \cup [op : {"delete_question"}, index : Indexes]
    \cup [op : {"swap_question"}, index_a : Indexes, index_b : Indexes]
    \cup [op : {"change_images"}, media_ids : ImageLists]
    \cup [op : {"add_image", "delete_image"}, media_id : MediaIds]
    \cup [op : {"swap_image"}, media_id_a : MediaIds, media_id_b : MediaIds]
    \cup [op : {"change_video"}, video : Videos]

PrCommand(self, c) ==
  CASE c.op = "rejoin" -> PrRejoin(self)
    [] c.op = "leave" -> PrLeave(self)
    [] c.op = "change_name" -> PrChangeName(self, c.name)
    [] c.op = "change_catchphrase" -> PrChangeCatchphrase(self, c.catchphrase)
    [] c.op = "change_profile" ->
         PrChange(self, "profile", "ProstituteProfileChanged", "profile", c.profile)
    [] c.op = "change_message" ->
         PrChange(self, "message", "ProstituteMessageChanged", "message", c.message)
    [] c.op = "change_figure" ->
         PrChange(self, "figure", "ProstituteFigureChanged", "figure", c.figure)
    [] c.op = "change_blood_type" ->
         PrChange(self, "blood", "ProstituteBloodTypeChanged", "blood", c.blood)
    [] c.op = "change_birthday" ->
         PrChange(self, "birthday", "ProstituteBirthdayChanged", "birthday", c.birthday)
    [] c.op = "change_questions" ->
         PrChange(self, "questions", "ProstituteQuestionsChanged", "questions",
                  c.questions)
    [] c.op = "add_question" -> PrAddQuestion(self, c.question)
    [] c.op = "delete_question" -> PrDeleteQuestion(self, c.index)
    [] c.op = "swap_question" -> PrSwapQuestion(self, c.index_a, c.index_b)
    [] c.op = "change_images" ->
         PrChange(self, "images", "ProstituteImagesChanged", "media_ids", c.media_ids)
    [] c.op = "add_image" -> PrAddImage(self, c.media_id)
    [] c.op = "delete_image" -> PrDeleteImage(self, c.media_id)
    [] c.op = "swap_image" -> PrSwapImage(self, c.media_id_a, c.media_id_b)
    [] c.op = "change_video" -> PrChangeVideo(self, c.video, 0)

\* events a Prostitute stream can deliver
PrEvents ==
  {[a EXCEPT !.type = "ProstituteJoined"] : a \in JoinInputs}
    \cup [type : {"ProstituteRejoined", "ProstituteLeaved", "ProstituteDeleted"}, id : Ids]
    \cup [type : {"ProstituteExtraServiceNameChanged"}, id : Ids, name : {<<" ">>, <<"b">>}]
    \cup [type : {"ProstituteCatchphraseChanged"}, id : Ids, catchphrase : {<<>>, <<"e">>}]
    \cup [type : {"ProstituteProfileChanged"}, id : Ids, profile : {<<>>}]
    \cup [type : {"ProstituteMessageChanged"}, id : Ids, message : {<<"m">>}]
    \cup [type : {"ProstituteFigureChanged"}, id : Ids, figure : Figures \ {FigureDefault}]
    \cup [type : {"ProstituteBloodTypeChanged"}, id : Ids, blood : Bloods \ {NoneV}]
    \cup [type : {"ProstituteBirthdayChanged"}, id : Ids, birthday : Birthdays \ {NoneV}]
    \cup [type : {"ProstituteQuestionsChanged"}, id : Ids, questions : {<<Q1>>}]
    \cup [type : {"ProstituteQuestionAdded"}, id : Ids, question : {Q1}]
    \cup [type : {"ProstituteQuestionDeleted"}, id : Ids, index : Indexes]
    \cup [type : {"ProstituteQuestionSwapped"}, id : Ids, index_a : Indexes,
          index_b : Indexes]
    \cup [type : {"ProstituteImagesChanged"}, id : Ids, media_ids : ImageLists]
    \cup [type : {"ProstituteImageAdded", "ProstituteImageDeleted"}, id : Ids,
          media_id : MediaIds]
    \cup [type : {"ProstituteImageSwapped"}, id : Ids, media_id_a : MediaIds,
          media_id_b : MediaIds]
    \cup [type : {"ProstituteVideoChanged"}, id : Ids, media_id : Videos]

(***************************************************************************)
(* Schedule and its shifts                                                 *)
(***************************************************************************)
\* instants are hours; Range<DateTime<Utc>> is [start, end)
Times == 0..2
Ranges == [start : Times, end : Times]
Statuses == {"Editing", "Reviewing", "Confirmed", "Canceled"}
ShiftIds == 1..2
ShiftInputs ==
  [id : ShiftIds, time : {r \in Ranges : r.end # 0}, status : {"Editing", "Confirmed"}]
ShiftIdLists == {<<>>, <<1>>, <<2>>, <<1, 2>>}

ScheduleDefault ==
  [kind |-> "schedule", id |-> 0, prostitute_id |-> 0, shifts |-> <<>>, events |-> <<>>]

ShiftValidateTime(time) == IF time.start > time.end THEN "InvalidDuration" ELSE "ok"

\* a validate_status that also lets a confirmed shift go back to review
ShiftValidateStatusLoose(shift, status) ==
  IF shift.status # status /\ <<shift.status, status>> # <<"Editing", "Canceled">>
       /\ <<shift.status, status>> \notin {<<"Canceled", "Reviewing">>, <<"Canceled", "Confirmed">>}
  THEN "ok" ELSE "InvalidStatusTransition"

ShiftValidateStatus(shift, status) ==
  IF <<shift.status, status>> \in
       {<<"Editing", "Reviewing">>, <<"Editing", "Confirmed">>,
        <<"Reviewing", "Editing">>, <<"Reviewing", "Confirmed">>,
        <<"Reviewing", "Canceled">>, <<"Confirmed", "Editing">>,
        <<"Confirmed", "Canceled">>, <<"Canceled", "Editing">>}
  THEN "ok" ELSE "InvalidStatusTransition"

\* Shift::create: the new shift is validated against itself
ShiftCreate(id, time, status) ==
  LET entity == [id |-> id, time |-> time, status |-> status]
  IN IF ShiftValidateTime(entity.time) # "ok"
     THEN [res |-> ShiftValidateTime(entity.time)]
     ELSE IF ShiftValidateStatus(entity, entity.status) # "ok"
     THEN [res |-> ShiftValidateStatus(entity, entity.status)]
     ELSE [res |-> "ok", shift |-> entity]

\* Shift::change_time and Shift::change_status: validate, then assign
ShiftChangeTime(shift, time) ==
  IF ShiftValidateTime(time) = "ok" THEN [shift EXCEPT !.time = time] ELSE shift

ShiftChangeStatus(shift, status) ==
  IF ShiftValidateStatus(shift, status) = "ok" THEN [shift EXCEPT !.status = status]
  ELSE shift

\* the interval tree's test of two ranges
Intersect(a, b) == a.start < a.end /\ b.start < b.end /\ a.end > b.start /\ a.start < b.end

SchValidateId(self, id) == IF self.id = id THEN "ok" ELSE "MismatchedId"

SchValidateShiftNotFound(self, shift_id) ==
  IF \E i \in 1..Len(self.shifts) : self.shifts[i].id = shift_id THEN "ok"
  ELSE "ShiftNotFound"

SchValidateDuplicateShift(self, shift_id) ==
  IF \E i \in 1..Len(self.shifts) : self.shifts[i].id = shift_id THEN "DuplicateShift"
  ELSE "ok"

\* IntervalTree::from_iter over every shift, then find(time): converting a range
\* with end < start into an interval panics
SchValidateOverlappingShift(self, time) ==
  IF time.end < time.start
       \/ \E i \in 1..Len(self.shifts) : self.shifts[i].time.end < self.shifts[i].time.start
  THEN "panic"
  ELSE IF \E i \in 1..Len(self.shifts) : Intersect(self.shifts[i].time, time)
       THEN "OverlappingShift" ELSE "ok"

SchValidateShiftAdded(self, shift) ==
  IF SchValidateDuplicateShift(self, shift.id) # "ok" THEN "DuplicateShift"
  ELSE SchValidateOverlappingShift(self, shift.time)

SchValidateShiftTimeChanged(self, shift_id, time) ==
  IF SchValidateShiftNotFound(self, shift_id) # "ok" THEN "ShiftNotFound"
  ELSE IF SchValidateOverlappingShift(self, time) # "ok"
       THEN SchValidateOverlappingShift(self, time)
       ELSE ShiftValidateTime(time)

SchValidateShiftStatusChanged(self, shift_id, status) ==
  IF SchValidateShiftNotFound(self, shift_id) # "ok" THEN "ShiftNotFound"
  ELSE ShiftValidateStatus(
         self.shifts[CHOOSE i \in 1..Len(self.shifts) :
                       /\ self.shifts[i].id = shift_id
                       /\ \A j \in 1..(i - 1) : self.shifts[j].id # shift_id],
         status)

SchValidateShiftsDeleted(self, shift_ids) ==
  IF \E i \in 1..Len(self.shifts) : self.shifts[i].id \in SeqToSet(shift_ids) THEN "ok"
  ELSE "ShiftNotFound"

SchCreate(id, prostitute_id) ==
  Ok([ScheduleDefault EXCEPT !.id = id, !.prostitute_id = prostitute_id,
                             !.events = <<[type |-> "ScheduleCreated", id |-> id,
                                           prostitute_id |-> prostitute_id]>>])

SchAddShift(self, shift) ==
  IF SchValidateShiftAdded(self, shift) # "ok"
  THEN Err(self, SchValidateShiftAdded(self, shift))
  ELSE Ok(Push([self EXCEPT !.shifts = Append(@, shift)],
               [type |-> "ShiftAdded", id |-> self.id, shift |-> shift]))

SchChangeShiftTime(self, shift_id, time) ==
  IF SchValidateShiftTimeChanged(self, shift_id, time) # "ok"
  THEN Err(self, SchValidateShiftTimeChanged(self, shift_id, time))
  ELSE Ok(Push([self EXCEPT !.shifts =
                  [i \in 1..Len(@) |-> IF @[i].id = shift_id
                                       THEN ShiftChangeTime(@[i], time) ELSE @[i]]],
               [type |-> "ShiftTimeChanged", shift_id |-> shift_id, time |-> time]))

\* a change_shift_status that assigns and queues before it validates
SchChangeShiftStatusUnchecked(self, shift_id, status) ==
  [res |-> SchValidateShiftStatusChanged(self, shift_id, status),
   st |-> Push([self EXCEPT !.shifts =
                  [i \in 1..Len(@) |-> IF @[i].id = shift_id
                                       THEN [@[i] EXCEPT !.status = status] ELSE @[i]]],
               [type |-> "ShiftStatusChanged", shift_id |-> shift_id,
                status |-> status])]

SchChangeShiftStatus(self, shift_id, status) ==
  IF SchValidateShiftStatusChanged(self, shift_id, status) # "ok"
  THEN Err(self, SchValidateShiftStatusChanged(self, shift_id, status))
  ELSE Ok(Push([self EXCEPT !.shifts =
                  [i \in 1..Len(@) |-> IF @[i].id = shift_id
                                       THEN ShiftChangeStatus(@[i], status) ELSE @[i]]],
               [type |-> "ShiftStatusChanged", shift_id |-> shift_id,
                status |-> status]))

\* retain(|shift| shift_ids.contains(&shift.id))
SchDeleteShifts(self, shift_ids) ==
  IF SchValidateShiftsDeleted(self, shift_ids) # "ok" THEN Err(self, "ShiftNotFound")
  ELSE Ok(Push([self EXCEPT !.shifts =
                  SelectSeq(@, LAMBDA x : x.id \in SeqToSet(shift_ids))],
               [type |-> "ShiftsDeleted", shift_ids |-> shift_ids]))

SchValidate(self, e) ==
  CASE e.type = "ScheduleCreated" -> "ok"
    [] e.type = "ScheduleDeleted" -> SchValidateId(self, e.id)
    [] e.type = "ShiftAdded" ->
         IF SchValidateId(self, e.id) # "ok" THEN "MismatchedId"
         ELSE SchValidateShiftAdded(self, e.shift)
    [] e.type = "ShiftTimeChanged" -> SchValidateShiftTimeChanged(self, e.shift_id, e.time)
    [] e.type = "ShiftStatusChanged" ->
         SchValidateShiftStatusChanged(self, e.shift_id, e.status)
    [] e.type = "ShiftsDeleted" -> SchValidateShiftsDeleted(self, e.shift_ids)

\* `if let Err(_) = command {}`: the Result is dropped, a panic is not
Ignore(r) == IF r.res \in {"panic", "stack_overflow"} THEN r ELSE Ok(r.st)

SchApply(self, e) ==
  CASE e.type = "ScheduleCreated" ->
         Ok(IF self.id # e.id THEN SchCreate(e.id, e.prostitute_id).st ELSE self)
    [] e.type = "ScheduleDeleted" -> Ok(self)
    [] e.type = "ShiftAdded" ->
         IF self.id = e.id THEN Ignore(SchAddShift(self, e.shift)) ELSE Ok(self)
    [] e.type = "ShiftTimeChanged" -> Ignore(SchChangeShiftTime(self, e.shift_id, e.time))
    [] e.type = "ShiftStatusChanged" ->
         Ignore(SchChangeShiftStatus(self, e.shift_id, e.status))
    [] e.type = "ShiftsDeleted" -> Ignore(SchDeleteShifts(self, e.shift_ids))

SchCommands ==
  [op : {"add_shift"}, shift : ShiftInputs]
    \cup [op : {"change_shift_time"}, shift_id : ShiftIds, time : Ranges]
    \cup [op : {"change_shift_status"}, shift_id : ShiftIds, status : Statuses]
    \cup [op : {"delete_shifts"}, shift_ids : ShiftIdLists]

SchCommand(self, c) ==
  CASE c.op = "add_shift" -> SchAddShift(self, c.shift)
    [] c.op = "change_shift_time" -> SchChangeShiftTime(self, c.shift_id, c.time)
    [] c.op = "change_shift_status" -> SchChangeShiftStatus(self, c.shift_id, c.status)
    [] c.op = "delete_shifts" -> SchDeleteShifts(self, c.shift_ids)

\* the payloads a Schedule stream can deliver; ShiftTimeChanged,
\* ShiftStatusChanged and ShiftsDeleted carry no schedule id
SchEvents ==
  [type : {"ScheduleCreated"}, id : Ids, prostitute_id : {1}]
    \cup [type : {"ScheduleDeleted"}, id : Ids]
    \cup [type : {"ShiftAdded"}, id : Ids, shift : ShiftInputs]
    \cup [type : {"ShiftTimeChanged"}, shift_id : ShiftIds, time : Ranges]
    \cup [type : {"ShiftStatusChanged"}, shift_id : ShiftIds, status : Statuses]
    \cup [type : {"ShiftsDeleted"}, shift_ids : ShiftIdLists]

(***************************************************************************)
(* Reservation                                                             *)
(***************************************************************************)
Customers ==
  {[tag |-> "Anonymous"], [tag |-> "Registered", id |-> 1],
   [tag |-> "Unregistered", name |-> <<"n">>, phone |-> <<"0">>],
   [tag |-> "Unregistered", name |-> <<>>, phone |-> <<"0">>],
   [tag |-> "Unregistered", name |-> <<" ">>, phone |-> <<>>]}
Details == [id : 1..2, name : {<<"x">>}, quantity : {1}, price : {1500}]

RsvDefault ==
  [kind |-> "reservation", id |-> 0, prostitute_ids |-> <<>>,
   time |-> [start |-> 0, end |-> 0], customer |-> [tag |-> "Anonymous"],
   details |-> <<>>, events |-> <<>>]

RsvValidateCreated(prostitute_ids, time, customer) ==
  IF prostitute_ids = <<>> THEN "NoProstitutes"
  ELSE IF time.start >= time.end THEN "InvalidTime"
  ELSE IF customer.tag = "Anonymous" THEN "AnonymousNotAllowed"
  ELSE IF customer.tag = "Registered" THEN "ok"
  ELSE IF customer.name = <<>> THEN "UnregisteredCustomerNameRequired"
  ELSE IF customer.phone = <<>> THEN "UnregisteredCustomerPhoneRequired"
  ELSE "ok"

RsvValidateDetailAddedAny(self, detail) == "ok"

RsvValidateDetailAdded(self, detail) ==
  IF \E i \in 1..Len(self.details) : self.details[i].id = detail.id
  THEN "DuplicateDetail" ELSE "ok"

RsvValidateDetailDeleted(self, detail_id) ==
  IF \E i \in 1..Len(self.details) : self.details[i].id = detail_id
  THEN "ok" ELSE "DetailNotFound"

RsvCreate(id, prostitute_ids, time, customer) ==
  IF RsvValidateCreated(prostitute_ids, time, customer) # "ok"
  THEN Err(RsvDefault, RsvValidateCreated(prostitute_ids, time, customer))
  ELSE Ok([RsvDefault EXCEPT !.id = id, !.prostitute_ids = prostitute_ids,
                             !.time = time, !.customer = customer,
                             !.events = <<[type |-> "ReservationCreated", id |-> id,
                                           prostitute_ids |-> prostitute_ids,
                                           time |-> time, customer |-> customer]>>])

RsvAddDetail(self, detail) ==
  IF RsvValidateDetailAdded(self, detail) # "ok" THEN Err(self, "DuplicateDetail")
  ELSE Ok(Push([self EXCEPT !.details = Append(@, detail)],
               [type |-> "ReservationDetailAdded", id |-> self.id, detail |-> detail]))

RsvDeleteDetail(self, detail_id) ==
  IF RsvValidateDetailDeleted(self, detail_id) # "ok" THEN Err(self, "DetailNotFound")
  ELSE Ok(Push([self EXCEPT !.details = SelectSeq(@, LAMBDA d : d.id # detail_id)],
               [type |-> "ReservationDetailDeleted", id |-> self.id,
                detail_id |-> detail_id]))

RsvValidate(self, e) ==
  CASE e.type = "ReservationCreated" ->
         RsvValidateCreated(e.prostitute_ids, e.time, e.customer)
    [] self.id # e.id -> "MismatchedId"
    [] e.type = "ReservationDetailAdded" -> RsvValidateDetailAdded(self, e.detail)
    [] e.type = "ReservationDetailDeleted" -> RsvValidateDetailDeleted(self, e.detail_id)
    [] OTHER -> "ok"

RsvApply(self, e) ==
  CASE e.type = "ReservationCreated" ->
         IF self.id # e.id
              /\ RsvCreate(e.id, e.prostitute_ids, e.time, e.customer).res = "ok"
         THEN RsvCreate(e.id, e.prostitute_ids, e.time, e.customer).st ELSE self
    [] e.type = "ReservationDetailAdded" ->
         IF self.id = e.id THEN RsvAddDetail(self, e.detail).st ELSE self
    [] e.type = "ReservationDetailDeleted" ->
         IF self.id = e.id THEN RsvDeleteDetail(self, e.detail_id).st ELSE self
    [] OTHER -> self

RsvCreateInputs ==
  [id : Ids, prostitute_ids : {<<>>, <<1>>},
   time : {[start |-> 0, end |-> 1], [start |-> 1, end |-> 1]}, customer : Customers]

RsvEvents ==
  {[type |-> "ReservationCreated", id |-> a.id, prostitute_ids |-> a.prostitute_ids,
    time |-> a.time, customer |-> a.customer] : a \in RsvCreateInputs}
    \cup [type : {"ReservationDetailAdded"}, id : Ids, detail : Details]
    \cup [type : {"ReservationDetailDeleted"}, id : Ids, detail_id : 1..2]
    \cup [type : {"ReservationDeleted"}, id : Ids]

RsvCommands ==
  [op : {"add_detail"}, detail : Details] \cup [op : {"delete_detail"}, detail_id : 1..2]

RsvCommand(self, c) ==
  CASE c.op = "add_detail" -> RsvAddDetail(self, c.detail)
    [] c.op = "delete_detail" -> RsvDeleteDetail(self, c.detail_id)

ESCommands ==
  [op : {"change_name"}, name : Names]
    \cup [op : {"change_description"}, description : Texts]
    \cup [op : {"change_price"}, price : Moneys]

ESCommand(self, c) ==
  CASE c.op = "change_name" -> ESChangeName(self, c.name)
    [] c.op = "change_description" -> ESChangeDescription(self, c.description)
    [] c.op = "change_price" -> ESChangePrice(self, c.price)

(***************************************************************************)
(* The Aggregation trait, by aggregate kind                                *)
(***************************************************************************)
Kinds == {"extra_service", "media", "prostitute", "schedule", "reservation"}

Default(kind) ==
  CASE kind = "extra_service" -> ESDefault
    [] kind = "media" -> MediaDefault
    [] kind = "prostitute" -> PrDefault
    [] kind = "schedule" -> ScheduleDefault
    [] kind = "reservation" -> RsvDefault

Events(kind) ==
  CASE kind = "extra_service" -> ESEvents
    [] kind = "media" -> MediaEvents
    [] kind = "prostitute" -> PrEvents
    [] kind = "schedule" -> SchEvents
    [] kind = "reservation" -> RsvEvents

Commands(kind) ==
  CASE kind = "extra_service" -> ESCommands
    [] kind = "media" -> {}
    [] kind = "prostitute" -> PrCommands
    [] kind = "schedule" -> SchCommands
    [] kind = "reservation" -> RsvCommands

Command(self, c) ==
  CASE self.kind = "extra_service" -> ESCommand(self, c)
    [] self.kind = "prostitute" -> PrCommand(self, c)
    [] self.kind = "schedule" -> SchCommand(self, c)
    [] self.kind = "reservation" -> RsvCommand(self, c)

Validate(self, e) ==
  CASE self.kind = "extra_service" -> ESValidate(self, e)
    [] self.kind = "media" -> MediaValidate(self, e)
    [] self.kind = "prostitute" -> PrValidate(self, e)
    [] self.kind = "schedule" -> SchValidate(self, e)
    [] self.kind = "reservation" -> RsvValidate(self, e)

\* the outcome of apply: "ok" with the state it leaves, or the way it died
Apply(self, e) ==
  CASE self.kind = "extra_service" -> Ok(ESApply(self, e))
    [] self.kind = "media" -> Ok(MediaApply(self, e))
    [] self.kind = "prostitute" -> PrApply(self, e, 0)
    [] self.kind = "schedule" -> SchApply(self, e)
    [] self.kind = "reservation" -> Ok(RsvApply(self, e))

\* EventQueue::clear
Clear(self) == [self EXCEPT !.events = <<>>]

\* PartialEq of an aggregate: every field but the event queue
Eq(a, b) == Clear(a) = Clear(b)

(***************************************************************************)
(* Spec: one aggregate driven by its constructor, commands and apply       *)
(***************************************************************************)
Crashed == last.res \in {"panic", "stack_overflow"}

Done(op, r) == [op |-> op, res |-> r.res, valid |-> "-"]

Init ==
  /\ agg \in {Default(k) : k \in Kinds}
  /\ last = [op |-> "init", res |-> "ok", valid |-> "-"]
  /\ repo = "none" /\ streams = <<>> /\ log = <<>>
  /\ ent = <<>> /\ base = <<>> /\ ret = <<>>
  /\ rec = <<>> /\ sync = <<>>

ESCreateAct ==
  /\ agg = ESDefault /\ last.op = "init"
  /\ \E id \in Ids, name \in Names, description \in Texts, price \in Moneys :
       LET r == ESCreate(id, name, description, price)
       IN agg' = r.st /\ last' = Done("create", r)
  /\ UNCHANGED <<repoVars, syncVars>>

MediaCreateAct ==
  /\ agg = MediaDefault /\ last.op = "init"
  /\ \E id \in Ids, data \in Datas :
       LET r == MediaCreate(id, data) IN agg' = r.st /\ last' = Done("create", r)
  /\ UNCHANGED <<repoVars, syncVars>>

PrJoinAct ==
  /\ agg = PrDefault /\ last.op = "init"
  /\ \E a \in JoinInputs : LET r == PrJoin(a) IN agg' = r.st /\ last' = Done("join", r)
  /\ UNCHANGED <<repoVars, syncVars>>

SchCreateAct ==
  /\ agg = ScheduleDefault /\ last.op = "init"
  /\ \E id \in Ids :
       LET r == SchCreate(id, 1) IN agg' = r.st /\ last' = Done("create", r)
  /\ UNCHANGED <<repoVars, syncVars>>

RsvCreateAct ==
  /\ agg = RsvDefault /\ last.op = "init"
  /\ \E a \in RsvCreateInputs :
       LET r == RsvCreate(a.id, a.prostitute_ids, a.time, a.customer)
       IN agg' = r.st /\ last' = Done("create", r)
  /\ UNCHANGED <<repoVars, syncVars>>

\* one call of a command method on the live aggregate
CommandAct ==
  /\ ~Crashed /\ Len(agg.events) < MaxQueue
  /\ \E c \in Commands(agg.kind) :
       LET r == Command(agg, c) IN agg' = r.st /\ last' = Done(c.op, r)
  /\ UNCHANGED <<repoVars, syncVars>>

\* validate(&e), then apply(e), of an event delivered to the live aggregate
ApplyAct ==
  /\ ~Crashed /\ Len(agg.events) < MaxQueue
  /\ \E e \in Events(agg.kind) :
       LET r == Apply(agg, e)
       IN /\ agg' = r.st
          /\ last' = [op |-> "apply", res |-> r.res, valid |-> Validate(agg, e)]
  /\ UNCHANGED <<repoVars, syncVars>>

Next ==
  \/ ESCreateAct \/ MediaCreateAct \/ PrJoinAct \/ SchCreateAct \/ RsvCreateAct
  \/ CommandAct \/ ApplyAct

Spec == Init /\ [][Next]_vars

(***************************************************************************)
(* Envelope codec and the event log                                        *)
(***************************************************************************)
\* variants of ScheduleEvent declared without a schedule id
IdLess == {"ShiftTimeChanged", "ShiftStatusChanged", "ShiftsDeleted"}

\* a from_event that leaves the id in the body
EncodeKeepId(e) == e

\* from_event: the variant tag becomes the event type, "id" leaves the body
Encode(e) == [f \in DOMAIN e \ {"id"} |-> e[f]]

\* try_from_resolved_event: the id of the stream name is inserted into the
\* body, which is then read as the variant; a field it does not declare is dropped
Decode(id, body) ==
  LET data == [id |-> id] @@ body
  IN IF body.type \in IdLess THEN [f \in DOMAIN data \ {"id"} |-> data[f]] ELSE data

NoStream == [status |-> "none", events |-> <<>>, rev |-> 0]

\* the expected-revision guard of append_to_stream
Accepts(stream, rev) ==
  IF rev = "NoStream" THEN stream.status # "live" ELSE stream.status = "live"

\* one atomic append of `bodies` to stream `id`
Appended(ss, id, bodies) ==
  [ss EXCEPT ![id] = [status |-> "live",
                      events |-> (IF @.status = "live" THEN @.events ELSE <<>>) \o bodies,
                      rev |-> @.rev + Len(bodies)]]

Records(id, bodies) == [i \in 1..Len(bodies) |-> [stream |-> id, body |-> bodies[i]]]

\* delete_stream: a soft delete, after which reads find no stream
Deleted(ss, id) == [ss EXCEPT ![id].status = "deleted", ![id].events = <<>>]

(***************************************************************************)
(* Repositories                                                            *)
(***************************************************************************)
Writers == 1..2
RepoKinds == {"extra_service", "media", "prostitute", "schedule"}

\* the first arm of save's match on peek()
IsCreation(e) ==
  e.type \in {"ExtraServiceCreated", "MediaCreated", "ProstituteJoined", "ScheduleCreated"}

\* a save that always requires the stream to exist
ExpectedRevisionExists(first) == "StreamExists"

ExpectedRevision(first) == IF IsCreation(first) THEN "NoStream" ELSE "StreamExists"

DeletedEvent(kind, id) ==
  [type |-> CASE kind = "extra_service" -> "ExtraServiceDeleted"
              [] kind = "media" -> "MediaDeleted"
              [] kind = "prostitute" -> "ProstituteDeleted"
              [] kind = "schedule" -> "ScheduleDeleted",
   id |-> id]

\* a pop_all that hands the queue over newest first
PopAllReversed(self) ==
  [events |-> [i \in 1..Len(self.events) |-> self.events[Len(self.events) + 1 - i]],
   st |-> Clear(self)]

\* Aggregation::pop_all: the queued events oldest first, and the drained aggregate
PopAll(self) == [events |-> self.events, st |-> Clear(self)]

RECURSIVE ReplayFrom(_, _)
\* the loop of find_by_id: apply every event of the stream in order
ReplayFrom(self, evs) ==
  IF evs = <<>> THEN Ok(self)
  ELSE LET r == Apply(self, Head(evs))
       IN IF r.res # "ok" THEN r ELSE ReplayFrom(r.st, Tail(evs))

FindById(kind, id, stream) ==
  IF stream.status # "live" THEN [res |-> "ok", val |-> NoneV]
  ELSE LET r == ReplayFrom(Default(kind),
                           [i \in 1..Len(stream.events) |-> Decode(id, stream.events[i])])
       IN IF r.res # "ok" THEN [res |-> r.res, val |-> NoneV]
          ELSE IF r.st.events = <<>> THEN [res |-> "ok", val |-> NoneV]
          ELSE [res |-> "ok", val |-> Some(Clear(r.st))]

\* a save that drains the queue only once the append went through
SaveKeepingQueue(self, ss, lg) ==
  IF self.events = <<>> THEN [res |-> "false", st |-> self, streams |-> ss, log |-> lg]
  ELSE LET rev == ExpectedRevision(Head(self.events))
           bodies == [i \in 1..Len(self.events) |-> Encode(self.events[i])]
       IN IF Accepts(ss[self.id], rev)
          THEN [res |-> "true", st |-> Clear(self),
                streams |-> Appended(ss, self.id, bodies),
                log |-> lg \o Records(self.id, bodies)]
          ELSE [res |-> "WriteError", st |-> self, streams |-> ss, log |-> lg]

\* save: the result, the aggregate it leaves, and the log after it
Save(self, ss, lg) ==
  IF self.events = <<>> THEN [res |-> "false", st |-> self, streams |-> ss, log |-> lg]
  ELSE LET rev == ExpectedRevision(Head(self.events))
           bodies == [i \in 1..Len(self.events) |-> Encode(PopAll(self).events[i])]
       IN IF Accepts(ss[self.id], rev)
          THEN [res |-> "true", st |-> PopAll(self).st,
                streams |-> Appended(ss, self.id, bodies),
                log |-> lg \o Records(self.id, bodies)]
          ELSE [res |-> "WriteError", st |-> PopAll(self).st, streams |-> ss, log |-> lg]

\* what the writers of a behaviour construct and call
RepoCreate(kind, id) ==
  CASE kind = "extra_service" -> ESCreate(id, <<"a">>, <<>>, 1500).st
    [] kind = "media" -> MediaCreate(id, "gif").st
    [] kind = "prostitute" ->
         PrJoin([type |-> "join", id |-> id, name |-> <<"a">>, catchphrase |-> <<"c">>,
                 profile |-> <<>>, message |-> <<>>, figure |-> FigureDefault,
                 blood |-> NoneV, birthday |-> NoneV, questions |-> <<>>,
                 images |-> <<>>, video |-> NoneV]).st
    [] kind = "schedule" -> SchCreate(id, 1).st

RepoCommands(kind) ==
  CASE kind = "extra_service" ->
         {[op |-> "change_name", name |-> <<"b">>], [op |-> "change_name", name |-> <<" ">>]}
    [] kind = "media" -> {}
    [] kind = "prostitute" ->
         {[op |-> "change_name", name |-> <<"b">>], [op |-> "change_name", name |-> <<" ">>]}
    [] kind = "schedule" ->
         {[op |-> "add_shift",
           shift |-> [id |-> 1, time |-> [start |-> 0, end |-> 1], status |-> "Editing"]]}

(***************************************************************************)
(* SpecRepo: two writers, one repository, one log                          *)
(***************************************************************************)
InitRepo ==
  /\ repo \in RepoKinds
  /\ streams = [i \in Ids |-> NoStream]
  /\ log = <<>>
  /\ ent = [w \in Writers |-> NoneV]
  /\ base = [w \in Writers |-> NoneV]
  /\ ret = [w \in Writers |-> [pc |-> "idle", won |-> NoneV]]
  /\ last = [op |-> "init", w |-> 0, res |-> "ok", rev |-> "-", n |-> 0]
  /\ agg = NoneV
  /\ rec = <<>> /\ sync = <<>>

\* writer w constructs a new aggregate
RCreate(w) ==
  /\ ret[w].pc = "idle" /\ ent[w] = NoneV
  /\ \E id \in Ids :
       /\ ent' = [ent EXCEPT ![w] = Some(RepoCreate(repo, id))]
       /\ last' = [op |-> "create", w |-> w, res |-> "ok", rev |-> "-", n |-> 0]
  /\ base' = [base EXCEPT ![w] = NoneV]
  /\ ret' = [ret EXCEPT ![w].won = NoneV]
  /\ UNCHANGED <<syncVars, agg, repo, streams, log>>

\* writer w loads an aggregate: find_by_id(id)
RFind(w) ==
  /\ ret[w].pc = "idle"
  /\ \E id \in Ids :
       LET r == FindById(repo, id, streams[id])
       IN /\ ent' = [ent EXCEPT ![w] = r.val]
          /\ base' = [base EXCEPT ![w] =
                        IF r.val = NoneV THEN NoneV
                        ELSE Some([id |-> id, rev |-> streams[id].rev])]
          /\ last' = [op |-> "find", w |-> w,
                      res |-> IF r.res # "ok" THEN r.res
                              ELSE IF r.val = NoneV THEN "None" ELSE "Some",
                      rev |-> "-", n |-> 0]
  /\ ret' = [ret EXCEPT ![w].won = NoneV]
  /\ UNCHANGED <<syncVars, agg, repo, streams, log>>

\* writer w calls a command method on its aggregate
RCommand(w) ==
  /\ ret[w].pc = "idle" /\ ent[w] # NoneV /\ Len(ent[w][1].events) < MaxPending
  /\ \E c \in RepoCommands(repo) :
       LET r == Command(ent[w][1], c)
       IN /\ ent' = [ent EXCEPT ![w] = Some(r.st)]
          /\ last' = [op |-> "command", w |-> w, res |-> r.res, rev |-> "-", n |-> 0]
  /\ UNCHANGED <<syncVars, agg, repo, streams, log, base, ret>>

\* writer w calls save(&mut entity).  base[w] is the stream state the aggregate
\* was loaded from, until the writer saves; ret[w].won is the loaded state from
\* which w's latest save succeeded
RSave(w) ==
  /\ ret[w].pc = "idle" /\ ent[w] # NoneV
  /\ Len(log) + Len(ent[w][1].events) <= MaxLog
  /\ LET r == Save(ent[w][1], streams, log)
     IN /\ ent' = [ent EXCEPT ![w] = Some(r.st)]
        /\ streams' = r.streams
        /\ log' = r.log
        /\ last' = [op |-> "save", w |-> w, res |-> r.res,
                    rev |-> IF ent[w][1].events = <<>> THEN "-"
                            ELSE ExpectedRevision(Head(ent[w][1].events)),
                    n |-> Len(ent[w][1].events)]
        /\ base' = [base EXCEPT ![w] = IF r.res = "false" THEN @ ELSE NoneV]
        /\ ret' = [ret EXCEPT ![w].won = IF r.res = "false" THEN @
                                         ELSE IF r.res = "true" THEN base[w] ELSE NoneV]
  /\ UNCHANGED <<syncVars, agg, repo>>

\* delete, first call: the tombstone is appended under StreamExists
RDeleteAppend(w) ==
  /\ ret[w].pc = "idle" /\ ent[w] # NoneV /\ repo # "prostitute"
  /\ Len(log) < MaxLog
  /\ LET id == ent[w][1].id
         body == Encode(DeletedEvent(repo, id))
     IN IF Accepts(streams[id], "StreamExists")
        THEN /\ streams' = Appended(streams, id, <<body>>)
             /\ log' = log \o Records(id, <<body>>)
             /\ ret' = [ret EXCEPT ![w].pc = "deleting"]
             /\ last' = [op |-> "delete_append", w |-> w, res |-> "ok",
                         rev |-> "StreamExists", n |-> 1]
        ELSE /\ last' = [op |-> "delete", w |-> w, res |-> "WriteError",
                         rev |-> "StreamExists", n |-> 1]
             /\ UNCHANGED <<streams, log, ret>>
  /\ UNCHANGED <<syncVars, agg, repo, ent, base>>

\* delete, last call: delete_stream; the Prostitute repository makes only this call
RDeleteStream(w) ==
  /\ ent[w] # NoneV
  /\ IF repo = "prostitute" THEN ret[w].pc = "idle" ELSE ret[w].pc = "deleting"
  /\ streams' = Deleted(streams, ent[w][1].id)
  /\ ret' = [ret EXCEPT ![w].pc = "idle"]
  /\ last' = [op |-> "delete", w |-> w, res |-> "true", rev |-> "-", n |-> 0]
  /\ UNCHANGED <<syncVars, agg, repo, log, ent, base>>

NextRepo ==
  \E w \in Writers :
    \/ RCreate(w) \/ RFind(w) \/ RCommand(w) \/ RSave(w)
    \/ RDeleteAppend(w) \/ RDeleteStream(w)

SpecRepo == InitRepo /\ [][NextRepo]_vars

(***************************************************************************)
(* Log records and their conversion to CoreEvent                          *)
(***************************************************************************)
\* a stream name is the sequence of its '-'-separated tokens; no entity name
\* holds a '-', so the name built by stream_name splits into kind and id
Digits == <<"0", "1", "2", "3", "4", "5", "6", "7", "8", "9">>

\* Display of an id
IdToString(id) == Digits[id + 1]

\* str::parse of one token
Parse(tok) ==
  IF \E n \in 0..9 : Digits[n + 1] = tok
  THEN Some(CHOOSE n \in 0..9 : Digits[n + 1] = tok) ELSE NoneV

\* stream_name
StreamName(kind, id) == <<kind, IdToString(id)>>

\* entity_id: the last token that parses as a number
EntityId(stream_id) ==
  LET nums == SelectSeq(stream_id, LAMBDA tok : Parse(tok) # NoneV)
  IN IF nums = <<>> THEN NoneV ELSE Parse(nums[Len(nums)])

\* bytes as serde_json::from_slice reads them: no JSON value, a JSON value
\* that is no object, or a JSON object; `raw` is what content sniffing finds
Bytes(raw) == [json |-> "invalid", raw |-> raw]
JsonArray == [json |-> "array", raw |-> "text"]
JsonObject(obj) == [json |-> "object", obj |-> obj, raw |-> "text"]

\* EventData::json of a payload that `Encode` left without its id
FromEvent(e) ==
  [event_type |-> e.type,
   data |-> JsonObject([f \in DOMAIN Encode(e) \ {"type"} |-> e[f]]),
   meta |-> Bytes("")]

\* the variant tags of a kind's event enum, and the fields of a variant
Tags(kind) == {e.type : e \in Events(kind)}
Fields(kind, tag) == DOMAIN (CHOOSE e \in Events(kind) : e.type = tag) \ {"type"}

ConvertError == [res |-> "EventConvertError"]
Panicked == [res |-> "panic"]
Converted(kind, e) == [res |-> "ok", kind |-> kind, event |-> e]

\* try_from_resolved_event, with serde's reading of {event_type: data}:
\* an unknown variant or a missing field is an error, an undeclared field
\* is ignored
TryFromResolvedEvent(kind, r) ==
  IF EntityId(r.stream_id) = NoneV THEN ConvertError
  ELSE IF r.data.json = "invalid" THEN ConvertError
  ELSE IF r.data.json # "object" THEN Panicked
  ELSE IF r.event_type \notin Tags(kind) THEN ConvertError
  ELSE IF ~(Fields(kind, r.event_type) \ {"id"} \subseteq DOMAIN r.data.obj)
  THEN ConvertError
  ELSE LET body == [f \in (DOMAIN r.data.obj \cup {"type"}) \ {"id"} |->
                      IF f = "type" THEN r.event_type ELSE r.data.obj[f]]
           e == Decode(EntityId(r.stream_id)[1], body)
       IN Converted(kind, [f \in Fields(kind, r.event_type) \cup {"type"} |-> e[f]])

Mimes == {"image/gif", "image/png", "text/plain", "*/*"}

\* From<MediaEvent> for EventData: binary data, the mime in the metadata
MediaFromEvent(e) ==
  IF e.type = "MediaCreated"
  THEN [event_type |-> "MediaCreated", data |-> Bytes(e.data),
        meta |-> JsonObject([contentType |-> e.mime])]
  ELSE [event_type |-> "MediaDeleted", data |-> Bytes(""), meta |-> Bytes("")]

\* TryFrom<ResolvedEvent> for MediaEvent
MediaTryFrom(r) ==
  CASE r.event_type = "MediaCreated" ->
         IF EntityId(r.stream_id) = NoneV THEN ConvertError
         ELSE IF r.meta.json = "invalid" THEN ConvertError
         ELSE IF r.meta.json # "object" THEN ConvertError
         ELSE IF "contentType" \notin DOMAIN r.meta.obj THEN ConvertError
         ELSE IF r.meta.obj.contentType \notin Mimes THEN ConvertError
         ELSE Converted("media", [type |-> "MediaCreated", id |-> EntityId(r.stream_id)[1],
                                  mime |-> r.meta.obj.contentType, data |-> r.data.raw])
    [] r.event_type = "MediaDeleted" ->
         IF EntityId(r.stream_id) = NoneV THEN ConvertError
         ELSE Converted("media", [type |-> "MediaDeleted", id |-> EntityId(r.stream_id)[1]])
    [] OTHER -> ConvertError

\* From<...Event> for EventData, by kind
EventDataFrom(kind, e) == IF kind = "media" THEN MediaFromEvent(e) ELSE FromEvent(e)

\* the record that stream `stream_id` holds for an appended EventData
Resolved(stream_id, data) ==
  [stream_id |-> stream_id, event_type |-> data.event_type, data |-> data.data,
   meta |-> data.meta]

\* TryFrom<&ResolvedEvent> for CoreEvent: the first token names the kind
CoreEventTryFrom(r) ==
  CASE r.stream_id[1] = "media" -> MediaTryFrom(r)
    [] r.stream_id[1] \in {"extra_service", "prostitute", "schedule"} ->
         TryFromResolvedEvent(r.stream_id[1], r)
    [] OTHER -> ConvertError

(***************************************************************************)
(* SpecCodec: a record is produced, by a repository or by anyone else, and *)
(* then converted                                                          *)
(***************************************************************************)
\* records of the log that no repository of this program wrote
ForeignStreams ==
  {<<"$settings">>, <<"$ce", "schedule">>, <<"reservation", "1">>, <<"extra_service">>,
   <<"extra_service", "x">>, <<"extra_service", "1">>, <<"schedule", "0", "b">>,
   <<"media", "1">>, <<"media">>, <<"prostitute", "1">>}
ForeignTypes == {"$metadata", "Created", "ExtraServiceDeleted", "ShiftsDeleted",
                 "ProstituteImageAdded", "MediaCreated", "MediaDeleted"}
ForeignBodies ==
  {Bytes("gif"), Bytes(""), JsonArray, JsonObject([id |-> 0]),
   JsonObject([shift_ids |-> <<1>>, note |-> 1]), JsonObject([media_id |-> 1]),
   JsonObject([contentType |-> "image/gif"]), JsonObject([contentType |-> "gif"])}
ForeignRecords ==
  [stream_id : ForeignStreams, event_type : ForeignTypes, data : ForeignBodies,
   meta : {Bytes(""), JsonArray, JsonObject([contentType |-> "image/gif"]),
           JsonObject([contentType |-> "gif"])}]

InitCodec ==
  /\ rec = <<>> /\ sync = <<>>
  /\ agg = NoneV /\ last = [op |-> "init", res |-> "ok", valid |-> "-"]
  /\ repo = "none" /\ streams = <<>> /\ log = <<>>
  /\ ent = <<>> /\ base = <<>> /\ ret = <<>>

\* a repository appends event e of an aggregate to the aggregate's stream
EncodeAct ==
  /\ rec = <<>>
  /\ \E kind \in RepoKinds : \E e \in Events(kind) : \E id \in Ids :
       /\ "id" \in DOMAIN e => id = e.id
       /\ rec' = [origin |-> Some([kind |-> kind, event |-> e]),
                  record |-> Resolved(StreamName(kind, id), EventDataFrom(kind, e)),
                  out |-> NoneV, exec |-> NoneV]
  /\ UNCHANGED <<domVars, repoVars, sync>>

\* the log holds a record of another origin
ForeignAct ==
  /\ rec = <<>>
  /\ \E r \in ForeignRecords : rec' = [origin |-> NoneV, record |-> r, out |-> NoneV, exec |-> NoneV]
  /\ UNCHANGED <<domVars, repoVars, sync>>

\* CoreEvent::try_from(&record)
DecodeAct ==
  /\ rec # <<>> /\ rec.out = NoneV
  /\ rec' = [rec EXCEPT !.out = Some(CoreEventTryFrom(rec.record))]
  /\ UNCHANGED <<domVars, repoVars, sync>>

(***************************************************************************)
(* The projection worker (dely_sync)                                       *)
(***************************************************************************)
\* most tasks the index holds unprocessed
MaxTasks == 4

\* event types whose handler builds the entity and adds it as a document
Creations ==
  {"ExtraServiceCreated", "MediaCreated", "ProstituteJoined", "ScheduleCreated",
   "ShiftAdded"}
Deletions ==
  {"ExtraServiceDeleted", "MediaDeleted", "ProstituteDeleted", "ScheduleDeleted",
   "ShiftsDeleted"}
\* event types whose handler fetches the document, applies the event and
\* writes the document back
ReadModifyWrite ==
  {"ProstituteQuestionAdded", "ProstituteQuestionDeleted", "ProstituteQuestionSwapped",
   "ProstituteImageAdded", "ProstituteImageDeleted", "ProstituteImageSwapped"}

\* the entity constructor a creation handler calls first
CreationValid(kind, e) ==
  CASE e.type = "ExtraServiceCreated" ->
         ESCreate(e.id, e.name, e.description, e.price).res = "ok"
    [] e.type = "MediaCreated" -> MediaCreate(e.id, e.data).res = "ok"
    [] e.type = "ProstituteJoined" -> PrJoin([e EXCEPT !.type = "join"]).res = "ok"
    [] OTHER -> TRUE

\* the index a handler writes to
IndexOf(kind, e) ==
  IF kind = "schedule" /\ e.type \notin {"ScheduleCreated", "ScheduleDeleted"}
  THEN "shift" ELSE kind

\* Serialize of an aggregate: every field but the skipped event queue
Document(st) == [f \in DOMAIN st \ {"kind", "events"} |-> st[f]]

\* Deserialize of a fetched document: every declared field is required, the
\* event queue starts empty
Entity(kind, doc) ==
  IF DOMAIN Document(Default(kind)) \subseteq DOMAIN doc
  THEN Some([f \in DOMAIN Default(kind) |->
               IF f = "kind" THEN kind ELSE IF f = "events" THEN <<>> ELSE doc[f]])
  ELSE NoneV

\* the document a handler hands to the index: the entity built by a creation
\* handler, the literal {id, leaved}, a MeiliShift whose unset fields are
\* None, or the event itself, which serializes under its variant tag; the
\* document of a read-modify-write handler is built from the fetched one
Payload(kind, e) ==
  CASE e.type = "ExtraServiceCreated" ->
         Document(ESCreate(e.id, e.name, e.description, e.price).st)
    [] e.type = "MediaCreated" -> Document(MediaCreate(e.id, e.data).st)
    [] e.type = "ProstituteJoined" -> Document(PrJoin([e EXCEPT !.type = "join"]).st)
    [] e.type = "ScheduleCreated" -> [id |-> e.id, prostitute_id |-> e.prostitute_id]
    [] e.type = "ShiftAdded" ->
         [id |-> e.shift.id, schedule_id |-> Some(e.id), time |-> Some(e.shift.time),
          status |-> Some(e.shift.status)]
    [] e.type = "ShiftTimeChanged" ->
         [id |-> e.shift_id, schedule_id |-> NoneV, time |-> Some(e.time),
          status |-> NoneV]
    [] e.type = "ShiftStatusChanged" ->
         [id |-> e.shift_id, schedule_id |-> NoneV, time |-> NoneV,
          status |-> Some(e.status)]
    [] e.type = "ShiftsDeleted" -> [ids |-> e.shift_ids]
    [] e.type = "ProstituteRejoined" -> [id |-> e.id, leaved |-> FALSE]
    [] e.type = "ProstituteLeaved" -> [id |-> e.id, leaved |-> TRUE]
    [] e.type \in Deletions \cup ReadModifyWrite -> [id |-> e.id]
    [] OTHER -> (e.type :> [f \in DOMAIN e \ {"type"} |-> e[f]])

\* the write a handler sends to the index
IndexWrite(kind, e) ==
  [index |-> IndexOf(kind, e),
   op |-> CASE e.type \in Creations -> "add_documents"
            [] e.type = "ShiftsDeleted" -> "delete_documents"
            [] e.type \in Deletions -> "delete_document"
            [] OTHER -> "add_or_update",
   type |-> e.type,
   doc |-> Payload(kind, e)]

\* Execute<CoreEvent>: Ok with the write the index accepted, Ok without a
\* write for a creation event of an invalid entity, or the index's error
Execute(kind, e, fails) ==
  IF e.type \in Creations /\ ~CreationValid(kind, e) THEN [res |-> "ok", ops |-> <<>>]
  ELSE IF fails THEN [res |-> "IndexError", ops |-> <<>>]
  ELSE [res |-> "ok", ops |-> <<IndexWrite(kind, e)>>]

\* the body of the read-modify-write arm once wait_for_completion returned:
\* get_document, apply, add_or_update of the entity
ExecuteFetched(kind, e, stored, fails) ==
  IF fails \/ stored = NoneV THEN [res |-> "IndexError", ops |-> <<>>]
  ELSE IF Entity(kind, stored[1]) = NoneV THEN [res |-> "IndexError", ops |-> <<>>]
  ELSE [res |-> "ok",
        ops |-> <<[IndexWrite(kind, e) EXCEPT
                     !.doc = Document(Apply(Entity(kind, stored[1])[1], e).st)]>>]

\* client.execute(core_event) on the event a record was converted to; a
\* read-modify-write handler finds the document stored or not
ExecuteAct ==
  /\ rec # <<>> /\ rec.out # NoneV /\ rec.out[1].res = "ok" /\ rec.exec = NoneV
  /\ \E fails \in BOOLEAN :
     \E stored \in {NoneV, Some(Document(RepoCreate("prostitute", MaxId)))} :
       LET d == rec.out[1]
       IN rec' = [rec EXCEPT !.exec =
                    Some(IF d.event.type \in ReadModifyWrite
                         THEN ExecuteFetched(d.kind, d.event, stored, fails)
                         ELSE Execute(d.kind, d.event, fails))]
  /\ UNCHANGED <<domVars, repoVars, sync>>

NextCodec == EncodeAct \/ ForeignAct \/ DecodeAct \/ ExecuteAct

SpecCodec == InitCodec /\ [][NextCodec]_vars

\* the index's task queue: a task is a write with the position of the record
\* that caused it; `own` marks the tasks of the running process and `mine`
\* the one that its task_info names
Task(write, pos, mine) ==
  [index |-> write.index, op |-> write.op, type |-> write.type, doc |-> write.doc,
   pos |-> pos, own |-> TRUE, mine |-> mine]

\* add_documents of the checkpoint document
Checkpoint(pos) ==
  [index |-> "eventstore_version", op |-> "add_documents", type |-> "-",
   doc |-> [id |-> 1, position |-> pos]]

Unmarked(queue) == [i \in 1..Len(queue) |-> [queue[i] EXCEPT !.mine = FALSE]]

\* the tasks a process leaves behind when it ends
Orphaned(queue) ==
  [i \in 1..Len(queue) |-> [queue[i] EXCEPT !.mine = FALSE, !.own = FALSE]]

\* the queue after an iteration's calls: the accepted writes, the last of which
\* task_info names from now on, then the checkpoint upsert unless it failed
Enqueued(queue, ops, pos, upsertFails) ==
  (IF ops = <<>> THEN queue
   ELSE Unmarked(queue) \o [i \in 1..Len(ops) |-> Task(ops[i], pos, i = Len(ops))])
    \o (IF upsertFails THEN <<>> ELSE <<Task(Checkpoint(pos), pos, FALSE)>>)

\* add_or_update: the fields of the document replace those stored
Merge(stored, doc) ==
  IF stored = NoneV THEN Some(doc)
  ELSE Some([f \in DOMAIN stored[1] \cup DOMAIN doc |->
               IF f \in DOMAIN doc THEN doc[f] ELSE stored[1][f]])

\* the index processes a task: a document without its primary key fails
TaskStatus(task) ==
  IF task.op \in {"add_documents", "add_or_update"} /\ "id" \notin DOMAIN task.doc
  THEN "Failed" ELSE "Succeeded"

\* document 1 of index prostitute after the task
StoredAfter(doc, task) ==
  IF task.index # "prostitute" \/ TaskStatus(task) = "Failed" THEN doc
  ELSE CASE task.op = "add_documents" -> Some(task.doc)
         [] task.op = "add_or_update" -> Merge(doc, task.doc)
         [] OTHER -> NoneV

\* records the worker is run over
SyncEvents ==
  {[kind |-> "prostitute",
    event |-> [type |-> "ProstituteJoined", id |-> 1, name |-> <<"a">>,
               catchphrase |-> <<"c">>, profile |-> <<>>, message |-> <<>>,
               figure |-> FigureDefault, blood |-> NoneV, birthday |-> NoneV,
               questions |-> <<>>, images |-> <<1, 2, 3>>, video |-> NoneV]],
   [kind |-> "prostitute",
    event |-> [type |-> "ProstituteImageSwapped", id |-> 1, media_id_a |-> 1,
               media_id_b |-> 3]]}
SyncRecords ==
  {Resolved(StreamName(x.kind, 1), EventDataFrom(x.kind, x.event)) : x \in SyncEvents}
    \cup {[stream_id |-> <<"$settings">>, event_type |-> "$metadata",
           data |-> JsonObject([id |-> 0]), meta |-> Bytes("")],
          [stream_id |-> <<"extra_service", "1">>, event_type |-> "ExtraServiceDeleted",
           data |-> JsonArray, meta |-> Bytes("")]}

\* the record at position p of the log is log[p]; position 0 is the log's start.
\* sync.ckpt is document 1 of index eventstore_version and sync.doc document 1
\* of index prostitute, sync.queue the index's unprocessed tasks, sync.task the
\* state of the task that task_info names, sync.next the position of the record
\* the subscription delivers next, sync.ops the writes the index accepted in
\* the latest iteration, sync.upsert the checkpoint upsert sent in it, and
\* sync.failed the positions whose latest index operation failed
InitSync ==
  /\ log = <<>>
  /\ \E c \in {NoneV, Some(0)} :
       sync = [pc |-> "boot", next |-> 1, ckpt |-> c, ops |-> <<>>, upsert |-> NoneV,
               queue |-> <<>>, task |-> "none", doc |-> NoneV, failed |-> {}]
  /\ last = [op |-> "init", res |-> "ok", pos |-> 0, found |-> NoneV]
  /\ rec = <<>> /\ agg = NoneV
  /\ repo = "none" /\ streams = <<>>
  /\ ent = <<>> /\ base = <<>> /\ ret = <<>>

\* a writer appends a record to the log
AppendAct ==
  /\ Len(log) < MaxLog
  /\ \E r \in SyncRecords : log' = Append(log, r)
  /\ UNCHANGED <<agg, last, repo, streams, ent, base, ret, syncVars>>

\* subscribe, up to the loop: get_document("1") of the checkpoint index, `?`
\* on its error, then subscribe_to_all from the stored position
StartAct ==
  /\ sync.pc = "boot"
  /\ IF sync.ckpt = NoneV
     THEN /\ sync' = [sync EXCEPT !.pc = "stopped", !.ops = <<>>, !.upsert = NoneV]
          /\ last' = [op |-> "start", res |-> "IndexError", pos |-> 0, found |-> NoneV]
     ELSE /\ sync' = [sync EXCEPT !.pc = "run", !.next = sync.ckpt[1] + 1,
                                  !.ops = <<>>, !.upsert = NoneV]
          /\ last' = [op |-> "start", res |-> "ok", pos |-> sync.ckpt[1],
                      found |-> sync.ckpt]
  /\ UNCHANGED <<agg, repo, streams, log, ent, base, ret, rec>>

\* the rest of an iteration once execute returned x: `continue` on its error,
\* else the checkpoint upsert, whose error is only logged
Iterated(x, upsertFails) ==
  IF x.res = "IndexError"
  THEN [sync EXCEPT !.pc = "run", !.next = @ + 1, !.ops = <<>>, !.upsert = NoneV,
                    !.failed = @ \cup {sync.next}]
  ELSE [sync EXCEPT !.pc = "run", !.next = @ + 1, !.ops = x.ops,
                    !.upsert = Some(sync.next),
                    !.queue = Enqueued(@, x.ops, sync.next, upsertFails),
                    !.task = IF x.ops = <<>> THEN @ ELSE "enqueued",
                    !.failed = IF x.ops = <<>> THEN @ ELSE @ \ {sync.next}]

\* one iteration of the receive loop over the record sub.next() delivers; the
\* iteration of a read-modify-write event goes on in wait_for_completion
ReceiveAct ==
  /\ sync.pc = "run" /\ sync.next <= Len(log)
  /\ Len(sync.queue) + 2 <= MaxTasks
  /\ \E execFails, upsertFails \in BOOLEAN :
       LET r == log[sync.next]
           d == CoreEventTryFrom(r)
           x == IF d.res = "ok" THEN Execute(d.kind, d.event, execFails)
                ELSE [res |-> "-", ops |-> <<>>]
       IN /\ rec' = Some(r)
          /\ last' = [op |-> "receive", res |-> d.res, pos |-> sync.next,
                      found |-> NoneV]
          /\ IF d.res = "panic"
             THEN sync' = [sync EXCEPT !.pc = "panicked", !.ops = <<>>, !.upsert = NoneV]
             ELSE IF d.res = "ok" /\ d.event.type \in ReadModifyWrite
             THEN sync' = [sync EXCEPT !.pc = "wait", !.ops = <<>>, !.upsert = NoneV]
             ELSE sync' = Iterated(x, upsertFails)
  /\ UNCHANGED <<agg, repo, streams, log, ent, base, ret>>

\* a wait_for_completion that does not look at the task
WaitReturnsAtOnce(task) == TRUE

\* wait_for_completion returns Ok: at once when task_info is None, else when
\* wait_for_task reports the task Succeeded or Failed
WaitReturns(task) == task \in {"none", "Succeeded", "Failed"}

\* wait_for_completion, one turn of its loop: wait_for_task timed out or
\* reported a task that is not yet Succeeded or Failed
WaitAct ==
  /\ sync.pc = "wait" /\ ~WaitReturns(sync.task)
  /\ last' = [op |-> "wait", res |-> "Timeout", pos |-> sync.next, found |-> NoneV]
  /\ UNCHANGED <<agg, repo, streams, log, ent, base, ret, syncVars>>

\* wait_for_completion returns, with no task or with a task Succeeded or
\* Failed, and the read-modify-write arm and the iteration run to their end;
\* or one of the index calls returns an error
FetchWriteAct ==
  /\ sync.pc = "wait"
  /\ \E execFails, upsertFails \in BOOLEAN :
       LET d == CoreEventTryFrom(rec[1])
       IN /\ WaitReturns(sync.task) \/ execFails
          /\ sync' = Iterated(ExecuteFetched(d.kind, d.event, sync.doc, execFails),
                              upsertFails)
          /\ last' = [op |-> "fetch",
                      res |-> IF execFails THEN "IndexError" ELSE sync.task,
                      pos |-> sync.next, found |-> sync.doc]
  /\ UNCHANGED <<agg, repo, streams, log, ent, base, ret, rec>>

\* the index processes its oldest task
IndexAct ==
  /\ sync.queue # <<>>
  /\ LET task == Head(sync.queue)
     IN sync' = [sync EXCEPT !.queue = Tail(@),
                             !.ckpt = IF task.index = "eventstore_version"
                                      THEN Some(task.doc.position) ELSE @,
                             !.doc = StoredAfter(@, task),
                             !.task = IF task.mine THEN TaskStatus(task) ELSE @]
  /\ UNCHANGED <<agg, last, repo, streams, log, ent, base, ret, rec>>

\* sub.next() returns an error: subscribe returns it and main ends
SubscriptionErrorAct ==
  /\ sync.pc = "run"
  /\ sync' = [sync EXCEPT !.pc = "stopped", !.ops = <<>>, !.upsert = NoneV]
  /\ last' = [op |-> "next", res |-> "SubscriptionError", pos |-> sync.next,
              found |-> NoneV]
  /\ UNCHANGED <<agg, repo, streams, log, ent, base, ret, rec>>

\* the process is started again after it ended: task_info is None again
RestartAct ==
  /\ sync.pc \in {"stopped", "panicked"}
  /\ sync' = [sync EXCEPT !.pc = "boot", !.ops = <<>>, !.upsert = NoneV,
                          !.task = "none", !.queue = Orphaned(@)]
  /\ last' = [op |-> "restart", res |-> "ok", pos |-> 0, found |-> NoneV]
  /\ UNCHANGED <<agg, repo, streams, log, ent, base, ret, rec>>

NextSync ==
  \/ AppendAct \/ StartAct \/ ReceiveAct \/ WaitAct \/ FetchWriteAct \/ IndexAct
  \/ SubscriptionErrorAct \/ RestartAct

SpecSync == InitSync /\ [][NextSync]_vars

(***************************************************************************)
(* wait_for_completion, turn by turn                                       *)
(***************************************************************************)
Terminal == {"Succeeded", "Failed"}

\* the state of the task that task_info names, as the index reports it
Watched(w) == IF w.task_info = NoneV THEN "none" ELSE w.status[w.task_info[1]]

\* sync.status holds the state of every task the index accepted, oldest first,
\* sync.task_info the number of the task the client remembers, sync.ret what
\* wait_for_completion returned
InitWait ==
  /\ sync = [pc |-> "run", task_info |-> NoneV, status |-> <<>>, ret |-> NoneV]
  /\ last = [op |-> "init", res |-> "ok"]
  /\ rec = <<>> /\ agg = NoneV /\ log = <<>>
  /\ repo = "none" /\ streams = <<>>
  /\ ent = <<>> /\ base = <<>> /\ ret = <<>>

\* a handler that does not wait: the index accepts its write and task_info
\* names the new task
WriteAct ==
  /\ sync.pc = "run" /\ Len(sync.status) < MaxTasks
  /\ sync' = [sync EXCEPT !.status = Append(@, "enqueued"),
                          !.task_info = Some(Len(sync.status) + 1), !.ret = NoneV]
  /\ last' = [op |-> "write", res |-> "ok"]
  /\ UNCHANGED <<agg, repo, streams, log, ent, base, ret, rec>>

\* the read-modify-write arm calls wait_for_completion: Ok(None) at once when
\* task_info is None, else into the loop
CallWaitAct ==
  /\ sync.pc = "run"
  /\ IF WaitReturns(Watched(sync)) /\ sync.task_info = NoneV
     THEN sync' = [sync EXCEPT !.pc = "returned", !.ret = Some("none")]
     ELSE sync' = [sync EXCEPT !.pc = "wait", !.ret = NoneV]
  /\ last' = [op |-> "call", res |-> "ok"]
  /\ UNCHANGED <<agg, repo, streams, log, ent, base, ret, rec>>

\* one turn of the loop: wait_for_task answers with the task, with Timeout
\* while the task is not finished, or with another error
WaitForTaskAct ==
  /\ sync.pc = "wait"
  /\ \E answer \in {"task", "Timeout", "Error"} :
       /\ answer = "Timeout" => Watched(sync) \notin Terminal
       /\ CASE answer = "Error" ->
                 /\ sync' = [sync EXCEPT !.pc = "failed", !.ret = Some("Error")]
                 /\ last' = [op |-> "wait_for_task", res |-> "Error"]
            [] answer = "task" /\ WaitReturns(Watched(sync)) ->
                 /\ sync' = [sync EXCEPT !.pc = "returned", !.ret = Some(Watched(sync))]
                 /\ last' = [op |-> "wait_for_task", res |-> Watched(sync)]
            [] OTHER ->
                 /\ sync' = sync
                 /\ last' = [op |-> "wait_for_task",
                             res |-> IF answer = "task" THEN Watched(sync) ELSE answer]
  /\ UNCHANGED <<agg, repo, streams, log, ent, base, ret, rec>>

\* after wait_for_completion: on its error execute returns it and the loop
\* goes on; else get_document and add_or_update, whose task task_info names
ResumeAct ==
  /\ sync.pc \in {"returned", "failed"}
  /\ \E fails \in BOOLEAN :
       /\ ~fails => (sync.pc = "returned" /\ Len(sync.status) < MaxTasks)
       /\ sync' = IF fails THEN [sync EXCEPT !.pc = "run", !.ret = NoneV]
                  ELSE [sync EXCEPT !.pc = "run", !.ret = NoneV,
                                    !.status = Append(@, "enqueued"),
                                    !.task_info = Some(Len(sync.status) + 1)]
       /\ last' = [op |-> "resume", res |-> IF fails THEN "IndexError" ELSE "ok"]
  /\ UNCHANGED <<agg, repo, streams, log, ent, base, ret, rec>>

\* the index takes up its oldest unfinished task, or finishes it
ProgressAct ==
  /\ \E i \in 1..Len(sync.status) :
       /\ sync.status[i] \notin Terminal
       /\ \A j \in 1..(i - 1) : sync.status[j] \in Terminal
       /\ \E to \in (IF sync.status[i] = "enqueued" THEN {"processing"} ELSE Terminal) :
            sync' = [sync EXCEPT !.status[i] = to]
  /\ UNCHANGED <<agg, last, repo, streams, log, ent, base, ret, rec>>

NextWait == WriteAct \/ CallWaitAct \/ WaitForTaskAct \/ ResumeAct \/ ProgressAct

\* the index works its queue off, and the loop, once wait_for_task can show it
\* a finished task, gets its turn
SpecWait ==
  /\ InitWait /\ [][NextWait]_vars
  /\ WF_vars(ProgressAct)
  /\ WF_vars(WaitForTaskAct /\ sync'.pc = "returned")

(***************************************************************************)
(* The id generator task                                                   *)
(***************************************************************************)
MaxCallers == 3
ChanCap == 2
SeqLimit == 2
MaxClock == 3

Callers == 1..MaxCallers

\* the id a Snowflake generator composes of the time, the machine and node
\* numbers (1 and 1) and the sequence number
SnowflakeId(time, idx) == (time * 4 + 3) * SeqLimit + idx

\* a generate that hands out the id of the state it is in
SnowflakeGenerateStale(gen, clock) == [gen |-> gen, id |-> SnowflakeId(gen.time, gen.idx)]

\* IdGenerator::generate: the sequence number goes up and, when it wraps, the
\* time is read anew (the caller has waited for the clock to pass the old one)
SnowflakeGenerate(gen, clock) ==
  LET idx == (gen.idx + 1) % SeqLimit
      time == IF idx = 0 THEN clock ELSE gen.time
  IN [gen |-> [time |-> time, idx |-> idx], id |-> SnowflakeId(time, idx)]

\* sync.caller[c] is where caller c stands in generate(), sync.chan the mpsc
\* channel of reply senders, sync.hold the sender the task took off it,
\* sync.reply[c] what was sent on c's oneshot channel, sync.got[c] what c
\* returned, sync.sent and sync.served the callers in the order they entered
\* the channel and were served, and sync.ids the ids in the order generated
InitIdGen ==
  /\ sync = [caller |-> [c \in Callers |-> "idle"], chan |-> <<>>, hold |-> NoneV,
             reply |-> [c \in Callers |-> <<>>], got |-> [c \in Callers |-> <<>>],
             sent |-> <<>>, served |-> <<>>, ids |-> <<>>,
             gen |-> [time |-> 0, idx |-> 0], clock |-> 0]
  /\ last = [op |-> "init", res |-> "ok"]
  /\ rec = <<>> /\ agg = NoneV /\ log = <<>>
  /\ repo = "none" /\ streams = <<>>
  /\ ent = <<>> /\ base = <<>> /\ ret = <<>>

\* generate(), up to rx.await: the oneshot channel is made and its sender sent
\* down the channel, which takes it when it has room
SendAct ==
  /\ \E c \in Callers :
       /\ sync.caller[c] = "idle" /\ Len(sync.chan) < ChanCap
       /\ sync' = [sync EXCEPT !.caller[c] = "waiting", !.chan = Append(@, c),
                               !.sent = Append(@, c)]
       /\ last' = [op |-> "send", res |-> "ok"]
  /\ UNCHANGED <<agg, repo, streams, log, ent, base, ret, rec>>

\* the task: rx_async.recv() yields the oldest sender
RecvAct ==
  /\ sync.hold = NoneV /\ sync.chan # <<>>
  /\ sync' = [sync EXCEPT !.hold = Some(Head(sync.chan)), !.chan = Tail(@)]
  /\ last' = [op |-> "recv", res |-> "ok"]
  /\ UNCHANGED <<agg, repo, streams, log, ent, base, ret, rec>>

\* the task: tx.send(gen.generate())
ReplyAct ==
  /\ sync.hold # NoneV
  /\ ((sync.gen.idx + 1) % SeqLimit = 0) => sync.clock > sync.gen.time
  /\ LET g == SnowflakeGenerate(sync.gen, sync.clock)
         c == sync.hold[1]
     IN sync' = [sync EXCEPT !.hold = NoneV, !.gen = g.gen,
                             !.reply[c] = Append(@, g.id),
                             !.served = Append(@, c), !.ids = Append(@, g.id)]
  /\ last' = [op |-> "reply", res |-> "ok"]
  /\ UNCHANGED <<agg, repo, streams, log, ent, base, ret, rec>>

\* generate(), from rx.await on: the caller returns the id sent to it
ReturnAct ==
  /\ \E c \in Callers :
       /\ sync.caller[c] = "waiting" /\ sync.reply[c] # <<>>
       /\ sync' = [sync EXCEPT !.caller[c] = "done", !.got[c] = Append(@, Head(sync.reply[c]))]
       /\ last' = [op |-> "return", res |-> "ok"]
  /\ UNCHANGED <<agg, repo, streams, log, ent, base, ret, rec>>

\* a millisecond passes
TickAct ==
  /\ sync.clock < MaxClock
  /\ sync' = [sync EXCEPT !.clock = @ + 1]
  /\ UNCHANGED <<agg, last, repo, streams, log, ent, base, ret, rec>>

NextIdGen == SendAct \/ RecvAct \/ ReplyAct \/ ReturnAct \/ TickAct

SpecIdGen == InitIdGen /\ [][NextIdGen]_vars

(***************************************************************************)
(* The id generator task with callers that are dropped                     *)
(***************************************************************************)
\* sync.task is "running" while the spawned loop lives and "panicked" once an
\* unwrap in it failed; the loop's receiver goes with it, which closes the
\* channel and drops the senders still queued in it
InitCancel ==
  /\ sync = [caller |-> [c \in Callers |-> "idle"], chan |-> <<>>, hold |-> NoneV,
             reply |-> [c \in Callers |-> <<>>], got |-> [c \in Callers |-> <<>>],
             sent |-> <<>>, served |-> <<>>, ids |-> <<>>,
             gen |-> [time |-> 0, idx |-> 0], clock |-> 0, task |-> "running"]
  /\ last = [op |-> "init", res |-> "ok"]
  /\ rec = <<>> /\ agg = NoneV /\ log = <<>>
  /\ repo = "none" /\ streams = <<>>
  /\ ent = <<>> /\ base = <<>> /\ ret = <<>>

\* self.sender.send(tx).await on the open channel
LiveSendAct == sync.task = "running" /\ SendAct

\* rx_async.recv() in the running loop
LiveRecvAct == sync.task = "running" /\ RecvAct

\* tx.send(gen.generate()) to a caller whose receiver is alive
LiveReplyAct ==
  /\ sync.task = "running" /\ sync.hold # NoneV
  /\ sync.caller[sync.hold[1]] # "dropped"
  /\ ReplyAct

\* the future of generate() is dropped at rx.await, after its sender entered
\* the channel and before an id was sent to it: the oneshot receiver is gone
DropAct ==
  /\ \E c \in Callers :
       /\ sync.caller[c] = "waiting" /\ sync.reply[c] = <<>>
       /\ sync' = [sync EXCEPT !.caller[c] = "dropped"]
       /\ last' = [op |-> "drop", res |-> "ok"]
  /\ UNCHANGED <<agg, repo, streams, log, ent, base, ret, rec>>

\* tx.send(gen.generate()).unwrap() when the receiver is gone: send returns
\* Err with the id, unwrap panics and the task ends
ReplyDroppedAct ==
  /\ sync.task = "running" /\ sync.hold # NoneV
  /\ sync.caller[sync.hold[1]] = "dropped"
  /\ ((sync.gen.idx + 1) % SeqLimit = 0) => sync.clock > sync.gen.time
  /\ LET g == SnowflakeGenerate(sync.gen, sync.clock)
     IN sync' = [sync EXCEPT !.hold = NoneV, !.gen = g.gen, !.chan = <<>>,
                             !.ids = Append(@, g.id), !.task = "panicked"]
  /\ last' = [op |-> "reply", res |-> "panic"]
  /\ UNCHANGED <<agg, repo, streams, log, ent, base, ret, rec>>

\* self.sender.send(tx).await.unwrap() on the closed channel: SendError
SendClosedAct ==
  /\ sync.task = "panicked"
  /\ \E c \in Callers :
       /\ sync.caller[c] = "idle"
       /\ sync' = [sync EXCEPT !.caller[c] = "panicked"]
       /\ last' = [op |-> "send", res |-> "panic"]
  /\ UNCHANGED <<agg, repo, streams, log, ent, base, ret, rec>>

\* rx.await.unwrap() of a caller whose sender was dropped with the channel:
\* RecvError
RecvClosedAct ==
  /\ sync.task = "panicked"
  /\ \E c \in Callers :
       /\ sync.caller[c] = "waiting" /\ sync.reply[c] = <<>>
       /\ sync' = [sync EXCEPT !.caller[c] = "panicked"]
       /\ last' = [op |-> "return", res |-> "panic"]
  /\ UNCHANGED <<agg, repo, streams, log, ent, base, ret, rec>>

NextCancel ==
  \/ LiveSendAct \/ LiveRecvAct \/ LiveReplyAct \/ ReturnAct \/ TickAct
  \/ DropAct \/ ReplyDroppedAct \/ SendClosedAct \/ RecvClosedAct

SpecIdGenCancel == InitCancel /\ [][NextCancel]_vars

(***************************************************************************)
(* Figure: cup size and figure type                                        *)
(***************************************************************************)
MaxBust == 160

\* checked_sub of two u16
CheckedSub(a, b) == IF a < b THEN NoneV ELSE Some(a - b)

\* a subtraction that wraps instead
WrappingSub(a, b) == Some((a - b) % 65536)

\* a CupSize::new that takes the wrapped difference
CupSizeNewWrapping(top_bust, under_bust) ==
  IF WrappingSub(top_bust, under_bust)[1] <= 6 THEN "AAA" ELSE "Z"

CupSizeNew(top_bust, under_bust) ==
  IF CheckedSub(top_bust, under_bust) = NoneV THEN "AAA"
  ELSE LET d == CheckedSub(top_bust, under_bust)[1]
       IN
       CASE d \in 0..6 -> "AAA"
         [] d \in 7..8 -> "AA"
         [] d \in 9..11 -> "A"
         [] d \in 12..13 -> "B"
         [] d \in 14..16 -> "C"
         [] d \in 17..18 -> "D"
         [] d \in 19..21 -> "E"
         [] d \in 22..23 -> "F"
         [] d \in 24..26 -> "G"
         [] d \in 27..28 -> "H"
         [] d \in 29..31 -> "I"
         [] d \in 32..33 -> "J"
         [] d \in 34..36 -> "K"
         [] d \in 37..38 -> "L"
         [] d \in 39..41 -> "M"
         [] d \in 42..43 -> "N"
         [] d \in 44..46 -> "O"
         [] d \in 47..48 -> "P"
         [] d \in 49..51 -> "Q"
         [] d \in 52..53 -> "R"
         [] d \in 54..56 -> "S"
         [] d \in 57..58 -> "T"
         [] d \in 59..61 -> "U"
         [] d \in 62..63 -> "V"
         [] d \in 64..66 -> "W"
         [] d \in 67..68 -> "X"
         [] d \in 69..71 -> "Y"
         [] OTHER -> "Z"

Heights == {150, 154, 155, 164, 165, 168, 200}
Weights == {40, 60, 74, 92, 100}
Vitals ==
  {[bust |-> [top |-> t, under |-> Some(80)], waist |-> w, hip |-> h] :
     t \in {98, 99, 100}, w \in {71, 72}, h \in {97, 98}}
FigureInputs ==
  [vital_statistics : {NoneV} \cup {Some(v) : v \in Vitals}, cup_size : {NoneV},
   height : {NoneV} \cup {Some(h) : h \in Heights},
   weight : {NoneV} \cup {Some(w) : w \in Weights}]

\* Figure::bmi against a bound given as the fraction num / den: the weight
\* over the square of the height in metres is below it
BmiBelow(self, num, den) ==
  self.weight[1] * 10000 * den < num * self.height[1] * self.height[1]

HasBmi(self) == self.weight # NoneV /\ self.height # NoneV

\* the tags in the order figure_type pushes them
FigureType(self) ==
  LET h == self.height[1]
      v == self.vital_statistics[1]
      byHeight ==
        IF self.height = NoneV THEN <<>>
        ELSE (IF h < 155 THEN <<"Petite">> ELSE <<>>)
               \o (IF h >= 165 THEN <<"Tall">> ELSE <<>>)
               \o (IF /\ self.vital_statistics # NoneV
                      /\ v.bust.top > (h * 59) \div 100
                      /\ v.waist < (h * 43) \div 100
                      /\ v.hip > (h * 58) \div 100
                   THEN <<"Voluptuous">> ELSE <<>>)
      byBmi ==
        IF ~HasBmi(self) THEN <<>>
        ELSE (IF BmiBelow(self, 37, 2) THEN <<"Slender">> ELSE <<>>)
               \o (IF ~BmiBelow(self, 23, 1) /\ BmiBelow(self, 25, 1)
                   THEN <<"Plump">> ELSE <<>>)
               \o (IF ~BmiBelow(self, 25, 1) THEN <<"Chubby">> ELSE <<>>)
      result == byHeight \o byBmi
  IN IF HasBmi(self) /\ result = <<>> THEN <<"Normal">> ELSE result

InitFigure ==
  /\ rec = [op |-> "init"]
  /\ last = [op |-> "init", res |-> "ok"]
  /\ sync = <<>> /\ agg = NoneV /\ log = <<>>
  /\ repo = "none" /\ streams = <<>>
  /\ ent = <<>> /\ base = <<>> /\ ret = <<>>

CupSizeAct ==
  /\ \E top \in 0..MaxBust, under \in {0, 65, 80, MaxBust + 1} :
       rec' = [op |-> "cup_size", top |-> top, under |-> under,
               out |-> CupSizeNew(top, under)]
  /\ UNCHANGED <<agg, last, repo, streams, log, ent, base, ret, sync>>

FigureTypeAct ==
  /\ \E figure \in FigureInputs :
       rec' = [op |-> "figure_type", figure |-> figure, out |-> FigureType(figure)]
  /\ UNCHANGED <<agg, last, repo, streams, log, ent, base, ret, sync>>

NextFigure == CupSizeAct \/ FigureTypeAct

SpecFigure == InitFigure /\ [][NextFigure]_vars

(***************************************************************************)
(* Service: price calculation                                              *)
(***************************************************************************)
\* a date_time is a day and a time of day; a period is a range of days and a
\* time-based price a range of times of day with its price
ServiceDiscounts ==
  {[type |-> "Amount", amount |-> 30, period |-> [start |-> 0, end |-> 2]],
   [type |-> "Percentage", percentage |-> 50, period |-> [start |-> 1, end |-> 3]]}
ServiceInputs ==
  [default_price : {0, 100},
   time_based_prices : {{}, {[time |-> [start |-> 0, end |-> 12], price |-> 40]}},
   discounts : {<<>>} \cup {<<d>> : d \in ServiceDiscounts}
                 \cup {<<d, e>> : d, e \in ServiceDiscounts}]
DateTimes == [day : 0..3, time : {6, 18}]

\* todo!(..): the call panics
Todo == [res |-> "panic"]

\* Service::calculate_price
CalculatePrice(self, date_time) == Todo

InitService ==
  /\ rec = [op |-> "init"]
  /\ last = [op |-> "init", res |-> "ok"]
  /\ sync = <<>> /\ agg = NoneV /\ log = <<>>
  /\ repo = "none" /\ streams = <<>>
  /\ ent = <<>> /\ base = <<>> /\ ret = <<>>

CalculatePriceAct ==
  /\ \E self \in ServiceInputs, date_time \in DateTimes :
       rec' = [op |-> "calculate_price", self |-> self, date_time |-> date_time,
               out |-> CalculatePrice(self, date_time)]
  /\ UNCHANGED <<agg, last, repo, streams, log, ent, base, ret, sync>>

NextService == CalculatePriceAct

SpecService == InitService /\ [][NextService]_vars

(***************************************************************************)
(* Properties of the aggregates (under Spec)                               *)
(***************************************************************************)
IsCommand(op) == op \notin {"init", "apply"}

DomainError(res) == res \notin {"ok", "panic", "stack_overflow"}

\* the event variant each command is to queue
Variant(kind, op) ==
  CASE op = "create" /\ kind = "extra_service" -> "ExtraServiceCreated"
    [] op = "create" /\ kind = "media" -> "MediaCreated"
    [] op = "create" /\ kind = "schedule" -> "ScheduleCreated"
    [] op = "create" /\ kind = "reservation" -> "ReservationCreated"
    [] op = "join" -> "ProstituteJoined"
    [] op = "change_name" /\ kind = "extra_service" -> "ExtraServiceNameChanged"
    [] op = "change_description" -> "ExtraServiceDescriptionChanged"
    [] op = "change_price" -> "ExtraServicePriceChanged"
    [] op = "rejoin" -> "ProstituteRejoined"
    [] op = "leave" -> "ProstituteLeaved"
    [] op = "change_name" /\ kind = "prostitute" -> "ProstituteExtraServiceNameChanged"
    [] op = "change_catchphrase" -> "ProstituteCatchphraseChanged"
    [] op = "change_profile" -> "ProstituteProfileChanged"
    [] op = "change_message" -> "ProstituteMessageChanged"
    [] op = "change_figure" -> "ProstituteFigureChanged"
    [] op = "change_blood_type" -> "ProstituteBloodTypeChanged"
    [] op = "change_birthday" -> "ProstituteBirthdayChanged"
    [] op = "change_questions" -> "ProstituteQuestionsChanged"
    [] op = "add_question" -> "ProstituteQuestionAdded"
    [] op = "delete_question" -> "ProstituteQuestionDeleted"
    [] op = "swap_question" -> "ProstituteQuestionSwapped"
    [] op = "change_images" -> "ProstituteImagesChanged"
    [] op = "add_image" -> "ProstituteImageAdded"
    [] op = "delete_image" -> "ProstituteImageDeleted"
    [] op = "swap_image" -> "ProstituteImageSwapped"
    [] op = "change_video" -> "ProstituteVideoChanged"
    [] op = "add_shift" -> "ShiftAdded"
    [] op = "change_shift_time" -> "ShiftTimeChanged"
    [] op = "change_shift_status" -> "ShiftStatusChanged"
    [] op = "delete_shifts" -> "ShiftsDeleted"
    [] op = "add_detail" -> "ReservationDetailAdded"
    [] op = "delete_detail" -> "ReservationDetailDeleted"

\* the per-aggregate invariants of the data model
Invariants(a) ==
  CASE a.kind = "extra_service" -> ~IsBlank(a.name)
    [] a.kind = "media" -> a.data \in {"gif", "png"}
    [] a.kind = "prostitute" ->
         /\ ~IsBlank(a.name) /\ ~IsBlank(a.catchphrase)
         /\ Len(a.images) = Cardinality(SeqToSet(a.images))
    [] a.kind = "schedule" ->
         \A i, j \in 1..Len(a.shifts) :
           i # j => /\ a.shifts[i].id # a.shifts[j].id
                    /\ \A t \in Times :
                         ~(/\ a.shifts[i].time.start <= t /\ t < a.shifts[i].time.end
                           /\ a.shifts[j].time.start <= t /\ t < a.shifts[j].time.end)
    [] a.kind = "reservation" ->
         /\ a.prostitute_ids # <<>> /\ a.time.start < a.time.end
         /\ a.customer.tag # "Anonymous"
         /\ \A i, j \in 1..Len(a.details) : i # j => a.details[i].id # a.details[j].id

\* C1: replay fidelity -- a default-constructed aggregate that applies, in order,
\* the events the live aggregate queued, and is then cleared, equals the live
\* aggregate (event queue aside).
C1_ReplayFidelity ==
  ~Crashed =>
    LET r == ReplayFrom(Default(agg.kind), agg.events)
    IN r.res = "ok" /\ Eq(r.st, agg)

\* C2: a command that returns success appends exactly one event to the queue,
\* and that event is of the variant matching the command.
C2_OneMatchingEvent ==
  [][(IsCommand(last'.op) /\ last'.res = "ok") =>
       /\ Len(agg'.events) = Len(agg.events) + 1
       /\ SubSeq(agg'.events, 1, Len(agg.events)) = agg.events
       /\ agg'.events[Len(agg'.events)].type = Variant(agg.kind, last'.op)]_vars

\* C3: a command that returns a domain error leaves every field of the
\* aggregate and its event queue as they were before the call.
C3_FailedCommandNoChange ==
  [][(IsCommand(last'.op) /\ DomainError(last'.res)) => agg' = agg]_vars

\* C3 witness: a status change was rejected on a schedule that holds a shift
C3_RejectedStatusChange ==
  /\ last.op = "change_shift_status" /\ last.res = "InvalidStatusTransition"
  /\ Len(agg.shifts) > 0 /\ Len(agg.events) > 1

\* C4: if validate(e) returns Ok on a state whose invariants hold, apply(e) on
\* that state returns (no panic, no unbounded recursion) and the invariants
\* hold in the state it leaves.
C4_ValidThenApplyTotal ==
  [][(last'.op = "apply" /\ last'.valid = "ok" /\ Invariants(agg)) =>
       (last'.res = "ok" /\ Invariants(agg'))]_vars

\* C4 witness: on a joined prostitute, an event validate accepted made apply
\* exhaust the stack
C4_AcceptedEventOverflows ==
  /\ last.op = "apply" /\ last.valid = "ok" /\ last.res = "stack_overflow"
  /\ Invariants(agg)

\* C5: id coherence -- a non-creation event read from the stream of another
\* aggregate (its id differs from the aggregate's) is rejected with MismatchedId.
C5_IdCoherence ==
  agg.events # <<>> =>
    \A i \in Ids, e \in Events(agg.kind) :
      (i # agg.id /\ ~IsCreation(e) /\ e.type # "ReservationCreated") =>
        Validate(agg, Decode(i, Encode(e))) = "MismatchedId"

(***************************************************************************)
(* Properties of the repositories (under SpecRepo)                         *)
(***************************************************************************)
\* the stream events a read of stream `id` returns
Stored(id) == IF streams[id].status = "live" THEN streams[id].events ELSE <<>>

\* C6: concurrency guard -- of two writers that loaded the same stream state
\* with find_by_id and each queued an event, the first to save succeeds and the
\* other's save fails with WriteError and appends nothing.
C6_OneWriterWins ==
  [][\A w \in Writers :
       (last'.op = "save" /\ last'.w = w /\ last'.res # "false" /\ base[w] # NoneV) =>
         /\ (\E v \in Writers \ {w} : ret[v].won = base[w]) =>
              (last'.res = "WriteError" /\ log' = log)
         /\ (streams[base[w][1].id].status = "live"
               /\ streams[base[w][1].id].rev = base[w][1].rev) =>
              last'.res = "true"]_vars

\* C7: save returns false, appending nothing, exactly when the queue is empty;
\* when it returns true the queue is empty and the stream and the log have
\* grown by the queued events, oldest first, in one append.
C7_SaveSemantics ==
  [][\A w \in Writers :
       (last'.op = "save" /\ last'.w = w) =>
         LET self == ent[w][1]
             bodies == [i \in 1..Len(self.events) |-> Encode(self.events[i])]
         IN /\ (last'.res = "false") <=> (self.events = <<>>)
            /\ last'.res = "false" => (log' = log /\ streams' = streams)
            /\ last'.res = "true" =>
                 /\ ent'[w][1].events = <<>>
                 /\ log' = log \o [i \in 1..Len(bodies) |->
                                     [stream |-> self.id, body |-> bodies[i]]]
                 /\ streams'[self.id].events = Stored(self.id) \o bodies
                 /\ \A j \in Ids \ {self.id} : streams'[j] = streams[j]]_vars

\* C7 witness: a save returned true after appending two queued events
C7_SavedTwoEvents ==
  /\ last.op = "save" /\ last.res = "true" /\ last.n = 2
  /\ ent[last.w][1].events = <<>>

\* C8: expected revision of save -- when the first queued event is the creation
\* variant the append succeeds only if the stream does not exist, and otherwise
\* fails with WriteError and appends nothing; for any other first event the
\* append succeeds only if the stream exists.
C8_ExpectedRevision ==
  [][\A w \in Writers :
       (last'.op = "save" /\ last'.w = w /\ ent[w][1].events # <<>>) =>
         LET exists == streams[ent[w][1].id].status = "live"
             wanted == IF IsCreation(Head(ent[w][1].events)) THEN ~exists ELSE exists
         IN IF wanted THEN last'.res = "true"
            ELSE last'.res = "WriteError" /\ log' = log /\ streams' = streams]_vars

\* C8 witness: a newly created aggregate was saved over an existing stream
C8_CreationOverExistingStream ==
  /\ last.op = "save" /\ last.rev = "NoStream" /\ last.res = "WriteError"
  /\ streams[ent[last.w][1].id].status = "live"

\* C9: find_by_id returns Ok(None) for a stream never written, deleted or
\* without events, and otherwise Some(a) with an empty queue, so that save(a)
\* returns false.
C9_FindByIdResult ==
  \A id \in Ids :
    LET r == FindById(repo, id, streams[id])
    IN /\ r.res = "ok"
       /\ Stored(id) = <<>> => r.val = NoneV
       /\ Stored(id) # <<>> =>
            /\ r.val # NoneV
            /\ r.val[1].events = <<>>
            /\ Save(r.val[1], streams, log).res = "false"

\* C10: delete appends the tombstone (the Deleted variant) before it deletes
\* the stream: the log of a deleted aggregate holds its tombstone after its
\* creation event, and find_by_id of that id returns None.
C10_DeleteTombstone ==
  \A id \in Ids :
    (streams[id].status = "deleted" /\ streams[id].rev > 0) =>
      /\ \E k \in 1..Len(log) :
           /\ log[k].stream = id
           /\ log[k].body.type = DeletedEvent(repo, id).type
           /\ \A j \in (k + 1)..Len(log) :
                log[j].stream = id => ~IsCreation(log[j].body)
      /\ FindById(repo, id, streams[id]).val = NoneV

(***************************************************************************)
(* Properties of the Schedule and its shifts (under Spec)                  *)
(***************************************************************************)
\* two half-open intervals overlap: a.start < b.end and b.start < a.end
Overlaps(a, b) == a.start < b.end /\ b.start < a.end

\* the shifts of the schedule other than the one at position k
Others(k) == {j \in 1..Len(agg.shifts) : j # k}

\* C11: no two distinct shifts a, b of a Schedule have a.start < b.end and
\* b.start < a.end, in any state add_shift, change_shift_time,
\* change_shift_status, delete_shifts and apply can reach.
C11_ShiftsNeverOverlap ==
  agg.kind = "schedule" =>
    \A i \in 1..Len(agg.shifts) : \A j \in Others(i) :
      ~Overlaps(agg.shifts[i].time, agg.shifts[j].time)

\* C12: change_shift_time of shift s to an interval of valid duration that
\* overlaps no other shift succeeds, also when the interval overlaps the
\* current interval of s itself.
C12_OverlapExcludesSelf ==
  agg.kind = "schedule" =>
    \A k \in 1..Len(agg.shifts), t \in Ranges :
      (t.start <= t.end /\ \A j \in Others(k) : ~Overlaps(agg.shifts[j].time, t)) =>
        SchChangeShiftTime(agg, agg.shifts[k].id, t).res = "ok"

\* C13: add_shift of a shift with a fresh id fails with OverlappingShift if
\* and only if some existing shift b has new.start < b.end and b.start < new.end.
C13_AddShiftOverlapIff ==
  agg.kind = "schedule" =>
    \A s \in ShiftInputs :
      (s.time.start <= s.time.end
         /\ \A j \in 1..Len(agg.shifts) : agg.shifts[j].id # s.id) =>
        ((SchAddShift(agg, s).res = "OverlappingShift")
           <=> \E j \in 1..Len(agg.shifts) : Overlaps(s.time, agg.shifts[j].time))

\* the transitions of the shift status machine
Edges ==
  {<<"Editing", "Reviewing">>, <<"Editing", "Confirmed">>, <<"Reviewing", "Editing">>,
   <<"Reviewing", "Confirmed">>, <<"Reviewing", "Canceled">>, <<"Confirmed", "Editing">>,
   <<"Confirmed", "Canceled">>, <<"Canceled", "Editing">>}

\* change_shift_status of the shift at position k to status y does what the
\* status machine says
StatusChangeAsTabled(k, y) ==
  LET r == SchChangeShiftStatus(agg, agg.shifts[k].id, y)
  IN IF <<agg.shifts[k].status, y>> \in Edges
     THEN r.res = "ok" /\ r.st.shifts[k].status = y
     ELSE r.res = "InvalidStatusTransition" /\ r.st = agg

\* C14: change_shift_status from x to y succeeds exactly for the eight
\* transitions of the status machine and otherwise fails with
\* InvalidStatusTransition leaving the schedule unchanged; in every step the
\* status of a shift stays or moves along one of these transitions.
C14_StatusMachine ==
  /\ [](agg.kind = "schedule" =>
          \A k \in 1..Len(agg.shifts), y \in Statuses : StatusChangeAsTabled(k, y))
  /\ [][agg.kind = "schedule" =>
          \A i \in 1..Len(agg.shifts), j \in 1..Len(agg'.shifts) :
            agg.shifts[i].id = agg'.shifts[j].id =>
              \/ agg'.shifts[j].status = agg.shifts[i].status
              \/ <<agg.shifts[i].status, agg'.shifts[j].status>> \in Edges]_vars

\* C14 witness: a shift was moved to Canceled by a successful status change
C14_ShiftCanceled ==
  /\ agg.kind = "schedule" /\ last.op = "change_shift_status" /\ last.res = "ok"
  /\ \E i \in 1..Len(agg.shifts) : agg.shifts[i].status = "Canceled"

(***************************************************************************)
(* Properties of the Prostitute (under Spec)                               *)
(***************************************************************************)
\* the aggregate is a prostitute that came from a successful join
Joined ==
  /\ agg.kind = "prostitute" /\ agg.events # <<>>
  /\ Head(agg.events).type = "ProstituteJoined"

\* C15: membership state machine -- a joined prostitute that has not left can
\* leave (the left flag becomes true) and cannot rejoin (AlreadyJoined); one
\* that has left can rejoin (the flag becomes false) and cannot leave
\* (AlreadyLeft); a newly joined prostitute has not left.
C15_MembershipMachine ==
  Joined =>
    /\ (last.op = "join" => ~agg.leaved)
    /\ IF ~agg.leaved
       THEN /\ PrLeave(agg).res = "ok" /\ PrLeave(agg).st.leaved
            /\ PrRejoin(agg).res = "AlreadyJoined"
       ELSE /\ PrRejoin(agg).res = "ok" /\ ~PrRejoin(agg).st.leaved
            /\ PrLeave(agg).res = "AlreadyLeft"

\* C16: images is a set -- in every state reached from a successful join by
\* commands and accepted events no MediaId occurs twice in images.
C16_ImagesIsSet ==
  (Joined /\ ~Crashed) =>
    \A i, j \in 1..Len(agg.images) : i # j => agg.images[i] # agg.images[j]

(***************************************************************************)
(* Properties of the codec (under SpecCodec)                               *)
(***************************************************************************)
JsonKinds == {"extra_service", "prostitute", "schedule"}
Encoded == rec # <<>> /\ rec.origin # NoneV /\ rec.origin[1].kind \in JsonKinds

C18_DecodingTotal ==
  (rec # <<>> /\ rec.out # NoneV) =>
    LET r == rec.record
        out == rec.out[1]
    IN /\ out.res \in {"ok", "EventConvertError"}
       /\ r.stream_id[1] \notin RepoKinds => out.res = "EventConvertError"
       /\ (r.stream_id[1] \in RepoKinds /\ r.event_type \notin Tags(r.stream_id[1]))
            => out.res = "EventConvertError"
       /\ (r.stream_id[1] \in JsonKinds /\ r.data.json # "object")
            => out.res = "EventConvertError"
       /\ EntityId(r.stream_id) = NoneV => out.res = "EventConvertError"

(***************************************************************************)
(* Properties of the projection worker (under SpecSync)                    *)
(***************************************************************************)
\* C19: at start-up the worker that finds no checkpoint document subscribes
\* from the beginning of the log, the worker that finds one resumes just
\* after the stored position, and in neither case does start-up end the
\* worker.
C19_StartUp ==
  [][(sync.pc = "boot" /\ sync'.pc # "boot") =>
       /\ sync'.pc = "run"
       /\ sync'.next = IF sync.ckpt = NoneV THEN 1 ELSE sync.ckpt[1] + 1]_vars

\* C20: a record that does not convert to a CoreEvent does not halt the
\* worker: the iteration sends no write to an index, upserts the checkpoint
\* to the record's position, and the worker goes on to the next record.
C20_UndecodableSkipped ==
  (last.op = "receive" /\ last.res # "ok") =>
    /\ sync.pc = "run"
    /\ sync.ops = <<>>
    /\ sync.upsert = Some(last.pos)
    /\ sync.next = last.pos + 1

\* C21: when the index operation of the event at position p failed, the
\* stored checkpoint stays before p, at that event and while the worker
\* processes later events, so that a restart delivers the event again.
C21_FailedNotPassed ==
  \A p \in sync.failed : sync.ckpt # NoneV => sync.ckpt[1] < p

\* the stored checkpoint is at p or beyond, or an upsert that brings it there
\* is among the index's tasks
Covered(p) ==
  \/ sync.ckpt # NoneV /\ sync.ckpt[1] >= p
  \/ \E i \in 1..Len(sync.queue) :
       sync.queue[i].index = "eventstore_version" /\ sync.queue[i].pos >= p

C22_NeverDecreases ==
  [][sync.ckpt # NoneV => (sync'.ckpt # NoneV /\ sync'.ckpt[1] >= sync.ckpt[1])]_vars

C22_AfterAcceptedWrite ==
  (sync.upsert # NoneV /\ CoreEventTryFrom(rec[1]).res = "ok") => sync.ops # <<>>

C22_AdvancedPast == sync.ops # <<>> => Covered(sync.upsert[1])

\* C22: the stored checkpoint position never decreases, the checkpoint of an
\* event is upserted only after the event's index write was accepted, and
\* after the iteration of a successfully indexed event at position p the
\* stored checkpoint is at p or beyond (or about to be, the upsert being
\* among the index's tasks), whatever the upsert call returned.
C22_CheckpointMonotone ==
  C22_NeverDecreases /\ [](C22_AfterAcceptedWrite /\ C22_AdvancedPast)

SwapLists == {<<1, 2, 3>>, <<3, 1>>, <<2, 3, 2, 1>>}

\* `after` is `before` with a where b was and b where a was
Exchanged(before, after, a, b) ==
  /\ Len(after) = Len(before)
  /\ \A i \in 1..Len(before) :
       after[i] = IF before[i] = a THEN b ELSE IF before[i] = b THEN a ELSE before[i]

\* C24: swap_image(a, b) on a Prostitute whose images hold both a and b
\* (a # b) succeeds and exchanges them by position, leaving the length and
\* every other entry as they were; and the worker that fetches a document
\* with images [1, 2, 3] and consumes ImageSwapped{1, 3} writes the document
\* back with images [3, 2, 1].
C24_ImageSwapExchanges ==
  /\ \A images \in SwapLists : \A a, b \in SeqToSet(images) :
       a # b =>
         LET r == PrSwapImage([PrDefault EXCEPT !.id = 1, !.images = images], a, b)
         IN r.res = "ok" /\ Exchanged(images, r.st.images, a, b)
  /\ (last.op = "fetch" /\ sync.ops # <<>> /\ sync.ops[1].type = "ProstituteImageSwapped")
       => /\ sync.ops[1].index = "prostitute" /\ sync.ops[1].op = "add_or_update"
          /\ Exchanged(last.found[1].images, sync.ops[1].doc.images, 1, 3)

C24_SwappedDocumentStored ==
  /\ last.op = "fetch" /\ last.found # NoneV /\ last.found[1].images = <<1, 2, 3>>
  /\ sync.doc # NoneV /\ sync.doc[1].images = <<3, 2, 1>>

(***************************************************************************)
(* Properties of the dispatch (under SpecCodec)                            *)
(***************************************************************************)
\* the dispatch table: the index and the operation of every event type
TableIndex(kind, type) ==
  IF type \in {"ShiftAdded", "ShiftTimeChanged", "ShiftStatusChanged", "ShiftsDeleted"}
  THEN "shift" ELSE kind
TableOp(type) ==
  CASE type \in {"ExtraServiceCreated", "MediaCreated", "ProstituteJoined",
                 "ScheduleCreated", "ShiftAdded"} -> "add"
    [] type \in {"ExtraServiceDeleted", "MediaDeleted", "ProstituteDeleted",
                 "ScheduleDeleted", "ShiftsDeleted"} -> "delete"
    [] OTHER -> "update"
OpClass(op) ==
  CASE op = "add_documents" -> "add"
    [] op = "add_or_update" -> "update"
    [] OTHER -> "delete"

\* C25: every decoded domain event whose handler succeeds causes exactly one
\* write, on the index the dispatch table names: creation events add a
\* document, *Changed events update by id, Deleted events delete by id,
\* ScheduleCreated and ScheduleDeleted touch index schedule and the shift
\* events index shift.
C25_DispatchAsTabled ==
  (rec # <<>> /\ rec.exec # NoneV /\ rec.exec[1].res = "ok") =>
    LET d == rec.out[1]
        ops == rec.exec[1].ops
    IN /\ Len(ops) = 1
       /\ ops[1].index = TableIndex(d.kind, d.event.type)
       /\ OpClass(ops[1].op) = TableOp(d.event.type)
       /\ d.event.type # "ShiftsDeleted" => "id" \in DOMAIN ops[1].doc

(***************************************************************************)
(* Properties of apply and of the aggregate's identity (under Spec)        *)
(***************************************************************************)
\* C26: apply is total and does not re-validate -- for every constructed
\* aggregate, state and event, apply(e) returns and leaves e appended to the event queue,
\* whether or not validate(e) would succeed on the state; no event is
\* silently dropped.
C26_ApplyTotal ==
  (~Crashed /\ last.op # "init" /\ last.res = "ok") =>
    \A e \in Events(agg.kind) :
      LET r == Apply(agg, e)
      IN r.res = "ok" /\ r.st.events = Append(agg.events, e)

\* the aggregate came out of a successful constructor call: its queue starts
\* with the creation event
Constructed ==
  /\ agg.events # <<>>
  /\ Head(agg.events).type \in {"ExtraServiceCreated", "MediaCreated", "ProstituteJoined",
                                "ScheduleCreated", "ReservationCreated"}

IsPrefix(q, r) == Len(q) <= Len(r) /\ SubSeq(r, 1, Len(q)) = q

\* C27: an aggregate's id is fixed at construction -- once constructed, no
\* command and no apply of any event (a creation event carrying another id
\* included) changes id(), and no apply replaces or discards the events already
\* in the queue.
C27_IdFixed ==
  [][(Constructed /\ ~Crashed /\ ~Crashed') =>
       /\ agg'.id = agg.id
       /\ IsPrefix(agg.events, agg'.events)]_vars

(***************************************************************************)
(* Properties of Reservation (under Spec)                                  *)
(***************************************************************************)
HasDetail(self, id) == \E i \in 1..Len(self.details) : self.details[i].id = id

C29_WaitForTask ==
  /\ [](sync.pc = "returned" =>
          /\ sync.ret = Some(Watched(sync))
          /\ sync.ret[1] \in Terminal \cup {"none"}
          /\ sync.ret[1] = "none" <=> sync.task_info = NoneV)
  /\ [](sync.pc = "wait" => sync.task_info # NoneV)
  /\ [][(sync.pc = "wait" /\ Watched(sync) \notin Terminal) =>
          sync'.pc \in {"wait", "failed"}]_vars
  /\ [][(sync.pc = "run" /\ sync.task_info = NoneV /\ last'.op = "call") =>
          sync'.pc = "returned"]_vars
  /\ (sync.pc = "wait") ~> (sync.pc # "wait")

\* C29 witness: the loop went round on a task the index had not yet finished
\* while an older task was still ahead of it
C29_WentRound ==
  /\ sync.pc = "wait" /\ last.op = "wait_for_task" /\ last.res = "Timeout"
  /\ sync.task_info = Some(2) /\ sync.status[1] \notin Terminal

(***************************************************************************)
(* Properties of the id generator task (under SpecIdGen)                   *)
(***************************************************************************)
\* C30: under every interleaving of concurrent generate() callers, each caller
\* receives exactly one id, no two callers receive the same id, and the ids
\* are strictly increasing in the order in which the task serves the
\* requests, which is the order in which they entered the channel.
C30_IdsUniqueAndIncreasing ==
  /\ \A c \in Callers :
       /\ Len(sync.reply[c]) <= 1
       /\ sync.caller[c] = "done" => sync.got[c] = sync.reply[c] /\ Len(sync.got[c]) = 1
       /\ sync.caller[c] # "done" => sync.got[c] = <<>>
  /\ \A c, d \in Callers :
       (c # d /\ sync.got[c] # <<>> /\ sync.got[d] # <<>>) => sync.got[c] # sync.got[d]
  /\ \A i, j \in 1..Len(sync.ids) : i < j => sync.ids[i] < sync.ids[j]
  /\ \A i \in 1..Len(sync.served) :
       /\ sync.served[i] = sync.sent[i]
       /\ sync.reply[sync.served[i]] = <<sync.ids[i]>>

\* C30 witness: every caller returned, the last of them after the sequence
\* number wrapped, and the callers were not served in the order of their
\* numbers
C30_AllServedAcrossWrap ==
  /\ \A c \in Callers : sync.caller[c] = "done"
  /\ sync.gen.time > 0
  /\ sync.served[1] # 1

(***************************************************************************)
(* Properties of Figure (under SpecFigure)                                 *)
(***************************************************************************)
CupSizes ==
  <<"AAA", "AA", "A", "B", "C", "D", "E", "F", "G", "H", "I", "J", "K", "L", "M", "N",
    "O", "P", "Q", "R", "S", "T", "U", "V", "W", "X", "Y", "Z">>

\* the place of the difference d on the ladder: buckets 3 and 2 wide in turn
\* from 9, after AAA up to 6 and AA for 7 and 8, and Z from 72
Ladder(d) ==
  IF d <= 6 THEN 1
  ELSE IF d >= 72 THEN 28
  ELSE 2 + 2 * ((d - 7) \div 5) + (IF (d - 7) % 5 >= 2 THEN 1 ELSE 0)

Rank(size) == CHOOSE i \in 1..Len(CupSizes) : CupSizes[i] = size

\* C31: CupSize::new(top, under) is AAA when top < under or the difference is
\* at most 6, AA for 7-8, A for 9-11, B for 12-13 and so on in buckets 3 and
\* 2 wide in turn up to Y for 69-71, and Z from 72; it is monotone in the
\* difference; (88,65)=F, (89,65)=G, (91,65)=G, (92,65)=H, (98,80)=D.
C31_CupSizeLadder ==
  /\ rec.op = "cup_size" =>
       /\ rec.out = CupSizes[IF rec.top < rec.under THEN 1
                             ELSE Ladder(rec.top - rec.under)]
       /\ \A top \in rec.under..rec.top :
            Rank(CupSizeNew(top, rec.under)) <= Rank(rec.out)
  /\ CupSizeNew(88, 65) = "F" /\ CupSizeNew(89, 65) = "G" /\ CupSizeNew(91, 65) = "G"
  /\ CupSizeNew(92, 65) = "H" /\ CupSizeNew(98, 80) = "D"

\* C31 witness: the top of the ladder but one was computed
C31_LadderExample ==
  rec.op = "cup_size" /\ rec.top - rec.under = 71 /\ rec.out = "Y"

\* the tags of a figure by the bands: the thresholds relative to the height
\* are 0.59, 0.43 and 0.58 of it
Bands(self) ==
  LET h == self.height[1]
      v == self.vital_statistics[1]
      tags ==
        (IF self.height # NoneV /\ h < 155 THEN <<"Petite">> ELSE <<>>)
          \o (IF self.height # NoneV /\ h >= 165 THEN <<"Tall">> ELSE <<>>)
          \o (IF /\ self.height # NoneV /\ self.vital_statistics # NoneV
                 /\ v.bust.top * 100 > h * 59 /\ v.waist * 100 < h * 43
                 /\ v.hip * 100 > h * 58
              THEN <<"Voluptuous">> ELSE <<>>)
          \o (IF HasBmi(self) /\ BmiBelow(self, 37, 2) THEN <<"Slender">> ELSE <<>>)
          \o (IF HasBmi(self) /\ ~BmiBelow(self, 23, 1) /\ BmiBelow(self, 25, 1)
              THEN <<"Plump">> ELSE <<>>)
          \o (IF HasBmi(self) /\ ~BmiBelow(self, 25, 1) THEN <<"Chubby">> ELSE <<>>)
  IN IF HasBmi(self) /\ tags = <<>> THEN <<"Normal">> ELSE tags

TestFigure ==
  [vital_statistics |-> Some([bust |-> [top |-> 98, under |-> Some(80)],
                              waist |-> 71, hip |-> 98]),
   cup_size |-> NoneV, height |-> Some(168), weight |-> Some(60)]

\* C32: figure_type returns the tags whose band condition holds, and for
\* height 168, weight 60, bust 98 over 80, waist 71 and hip 98 the result is
\* exactly Tall and Voluptuous.
C32_FigureTags ==
  /\ rec.op = "figure_type" =>
       /\ rec.out = Bands(rec.figure)
       /\ rec.figure = TestFigure => rec.out = <<"Tall", "Voluptuous">>

(***************************************************************************)
(* Properties of Service (under SpecService)                               *)
(***************************************************************************)
Contains(range, x) == range.start <= x /\ x < range.end

RECURSIVE SumOver(_, _)
SumOver(f, set) ==
  IF set = {} THEN 0
  ELSE LET x == CHOOSE y \in set : TRUE IN f[x] + SumOver(f, set \ {x})

\* the price of the interval that contains the time of day, else the default
BaseOf(self, date_time) ==
  IF \E t \in self.time_based_prices : Contains(t.time, date_time.time)
  THEN (CHOOSE t \in self.time_based_prices : Contains(t.time, date_time.time)).price
  ELSE self.default_price

\* the discounts whose period contains the date, percentages of the base
\* first, amounts after, the total no more than the base
DiscountOf(self, date_time) ==
  LET b == BaseOf(self, date_time)
      live == {i \in 1..Len(self.discounts) :
                 Contains(self.discounts[i].period, date_time.day)}
      each == [i \in live |->
                 IF self.discounts[i].type = "Percentage"
                 THEN (b * self.discounts[i].percentage) \div 100
                 ELSE self.discounts[i].amount]
      sum == SumOver(each, live)
  IN IF sum > b THEN b ELSE sum

\* C33: calculate_price(date_time) returns, for every Service and date_time,
\* a Money value: the base price (that of the time-based interval containing
\* the time of day, else the default) less the discounts whose period
\* contains date_time, the discount clamped at the base so that the total is
\* never below zero.
C33_PriceComputed ==
  rec.op = "calculate_price" =>
    /\ rec.out.res = "ok"
    /\ rec.out.value = BaseOf(rec.self, rec.date_time) - DiscountOf(rec.self, rec.date_time)
    /\ rec.out.value >= 0

(***************************************************************************)
(* Properties of Shift and Schedule (under Spec)                           *)
(***************************************************************************)
\* C34: Shift::create(id, time, status) returns Ok with a shift of exactly
\* that id, time and status for every status and every time with
\* start <= end, and InvalidDuration when start > end; so every shift that
\* add_shift accepts on a schedule can be built with the constructor.
C34_ShiftConstructible ==
  agg.kind = "schedule" =>
    /\ \A id \in ShiftIds, time \in Ranges, status \in Statuses :
         ShiftCreate(id, time, status) =
           IF time.start > time.end THEN [res |-> "InvalidDuration"]
           ELSE [res |-> "ok", shift |-> [id |-> id, time |-> time, status |-> status]]
    /\ \A shift \in ShiftInputs :
         SchAddShift(agg, shift).res = "ok" =>
           ShiftCreate(shift.id, shift.time, shift.status) =
             [res |-> "ok", shift |-> shift]

\* C35: after a successful delete_shifts(ids), or apply of ShiftsDeleted{ids},
\* the schedule's shifts are exactly the previous shifts whose id is not in
\* ids, in their previous order.
C35_NamedShiftsDeleted ==
  [][(/\ agg.kind = "schedule" /\ ~Crashed'
      /\ Len(agg'.events) = Len(agg.events) + 1
      /\ agg'.events[Len(agg'.events)].type = "ShiftsDeleted") =>
       LET ids == SeqToSet(agg'.events[Len(agg'.events)].shift_ids)
       IN agg'.shifts = SelectSeq(agg.shifts, LAMBDA x : x.id \notin ids)]_vars

(***************************************************************************)
(* Properties of a failed save (under SpecRepo)                            *)
(***************************************************************************)
\* C36: save drains the event queue before the append is attempted -- when
\* the append fails with WriteError nothing is appended to the log or the
\* stream and the aggregate's queue is empty all the same, so the rejected
\* events are in neither and a second save of the aggregate returns false.
C36_FailedSaveDrains ==
  [][\A w \in Writers :
       (last'.op = "save" /\ last'.w = w /\ last' # last /\ last'.res = "WriteError") =>
         /\ ent[w][1].events # <<>>
         /\ log' = log /\ streams' = streams
         /\ ent'[w][1].events = <<>>
         /\ Eq(ent'[w][1], ent[w][1])
         /\ Save(ent'[w][1], streams', log').res = "false"]_vars

\* C36 witness: a save of two queued events was rejected and left the queue
\* empty and the aggregate's stream without them
C36_RejectedEventsLost ==
  /\ last.op = "save" /\ last.res = "WriteError" /\ last.n = 2
  /\ ent[last.w][1].events = <<>>
  /\ last.rev = "StreamExists"

(***************************************************************************)
(* The projection of a prostitute's left flag against replay               *)
(***************************************************************************)
RECURSIVE IndexedLeaved(_, _)
\* the leaved field of the prostitute document once the worker has executed
\* the events `evs` in order, starting from `leaved` (NoneV: no document):
\* add_documents of the built entity sets it, the {id, leaved} upsert sets
\* it, a read-modify-write handler writes the fetched value back and the
\* upsert of a tagged event carries no leaved field
IndexedLeaved(leaved, evs) ==
  IF evs = <<>> THEN leaved
  ELSE LET e == Head(evs)
           w == Execute("prostitute", e, FALSE)
           next == IF e.type \in ReadModifyWrite \/ w.ops = <<>> THEN leaved
                   ELSE IF e.type \in Deletions THEN NoneV
                   ELSE IF "leaved" \in DOMAIN w.ops[1].doc
                        THEN Some(w.ops[1].doc.leaved)
                   ELSE leaved
       IN IndexedLeaved(next, Tail(evs))

\* the events of the aggregate's queue as find_by_id and the worker read
\* them back from the stream
ReadBack(self) == [i \in 1..Len(self.events) |-> Decode(self.id, Encode(self.events[i]))]

\* C37: for every sequence of successful Prostitute commands saved to the
\* log, once the worker has processed every event of the stream the leaved
\* field of the index document equals the leaved flag of the aggregate that
\* find_by_id obtains by replaying the same stream.
C37_LeavedAgrees ==
  (agg.kind = "prostitute" /\ Constructed /\ ~Crashed) =>
    LET r == ReplayFrom(PrDefault, ReadBack(agg))
    IN (r.res = "ok" /\ r.st.events # <<>>) =>
         IndexedLeaved(NoneV, ReadBack(agg)) = Some(r.st.leaved)

(***************************************************************************)
(* change_shift_time with an inverted interval                             *)
(***************************************************************************)
\* C38: change_shift_time(shift_id, time) on an existing shift with
\* time.start > time.end returns InvalidDuration, never panics and never
\* returns another error, and leaves the schedule's shifts and event queue
\* unchanged; the overlap search on the invalid interval does not pre-empt
\* the duration check.
C38_InvalidDurationReported ==
  (agg.kind = "schedule" /\ ~Crashed) =>
    \A shift_id \in ShiftIds : \A time \in Ranges :
      (SchValidateShiftNotFound(agg, shift_id) = "ok" /\ time.start > time.end) =>
        SchChangeShiftTime(agg, shift_id, time) = Err(agg, "InvalidDuration")

(***************************************************************************)
(* Identity established by the creation event                              *)
(***************************************************************************)
\* C39: the creation event establishes identity for every id, 0 included --
\* applying the valid creation event with id i to a default aggregate yields
\* the created state with the event queued, so find_by_id returns Some for
\* a live stream whose first event is that creation event.
C39_CreationEstablishesIdentity ==
  (last.op \in {"create", "join"} /\ last.res = "ok") =>
    LET e == Head(agg.events)
        r == Apply(Default(agg.kind), e)
        stream == [status |-> "live", events |-> <<Encode(e)>>, rev |-> 1]
    IN /\ r = Ok(agg)
       /\ agg.kind \in RepoKinds => FindById(agg.kind, agg.id, stream).val # NoneV

(***************************************************************************)
(* The id generator task and dropped callers (under SpecIdGenCancel)       *)
(***************************************************************************)
\* C40: the id generator task survives caller cancellation -- when a caller
\* of generate() is dropped after its request was enqueued and before the
\* reply is delivered, the task keeps running and no later caller panics.
C40_SurvivesCancellation ==
  /\ sync.task = "running"
  /\ \A c \in Callers : sync.caller[c] # "panicked"

====
